---- MODULE Spec2Model ----
(***************************************************************************)
(* Prestige: anonymous verifiable voting.  A model of one node: the store, *)
(* the ballot lifecycle, vote and reveal admission, petition activation,   *)
(* result computation and the gossip receipt handlers.                     *)
(*                                                                         *)
(* Every handler is an async function.  A handler runs from one await to   *)
(* the next without interruption; a call to a store method executes the    *)
(* method's body at the call (the bodies contain no await) and the caller  *)
(* resumes in a later turn.  Each action below is one such turn of one     *)
(* task; between two turns of a task any other task may run and the clock  *)
(* may advance.                                                            *)
(*                                                                         *)
(* Strings that are hashed are sequences of characters; SHA-256 is taken   *)
(* to be injective on byte strings, so a digest is represented by the      *)
(* byte string that was hashed (the concatenation of the inputs).          *)
(***************************************************************************)
EXTENDS Integers, Sequences, FiniteSets, TLC

VARIABLES
    storeKind,    \* which PrestigeStore the node was constructed with
    ballotGate,   \* config.ballotGate of the instance
    voterGate,    \* the instance's VoterGate: its type and its allowlist
    relay,        \* the WebSocket relay adapter: socket, reconnect timer, attempts
    batcher,      \* the RequestBatcher of eligibility requests
    now,          \* Date.now(), milliseconds
    connected,    \* the relay adapter's connected flag
    ballots,      \* store: ballot id -> ballot or Null
    votes,        \* store: the vote table
    reveals,      \* store: the reveal table
    results,      \* store: ballot id -> result or Null
    signatures,   \* store: the petition signature table
    issued,       \* the issuer: tokens issued so far and to whom
    sent,         \* envelopes handed to the relay
    nullifiers,   \* gossip: the nullifier cache
    peerScores,   \* gossip: peer id -> score or Null
    started,      \* gossip: the message handler is registered
    tasks,        \* the operations in flight, one record per task slot
    calls         \* number of operations started so far

vars == <<storeKind, ballotGate, voterGate, relay, batcher, now, connected, ballots, votes, reveals, results,
          signatures, issued, sent, nullifiers, peerScores, started, tasks, calls>>

----------------------------------------------------------------------------
(* Bounds of the model *)

MaxTasks == 2
MaxCalls == 6
MaxRaceCalls == 4
MaxRevealCalls == 5
MaxLifeCalls == 4
MaxGossipCalls == 5
MaxTokens == 2
DefaultDurationMinutes == 1
RevealWindowMinutes == 1
MaxChoices == 3
MaxScoreDrop == 170
MaxNullifiers == 1
MaxReconnectAttempts == 2
MaxStopCalls == 2
MaxClosing == 2
MaxBatchSize == 2
MaxBatchCalls == 4
CurveOrder == 5
MaxPartials == 3
MaxAggregateCalls == 1
MaxNullifierAge == 45000

(* Constants of the program *)

MsPerSecond == 1000
MsPerMinute == 60000
TokenTTL == 3600000
PetitionThreshold == 2
InitialPeerScore == 100
DefaultPenalty == 10
DuplicatePenalty == 1
PeerScoreThreshold == -50
MinDurationMinutes == 1
MaxDurationMinutes == 43200

----------------------------------------------------------------------------
(* Values *)

Null == [null |-> TRUE]

Upd(r, s) == [k \in DOMAIN r |-> IF k \in DOMAIN s THEN s[k] ELSE r[k]]

TaskIds == 1..MaxTasks
BallotIds == {<<"b1">>}
PublicKeys == {"pk1", "pk2", "pk3"}
Peers == {"peerA", "peerB"}
VoterSecrets == {<<"s1">>, <<"s2">>}
Salts == {<<"x">>, <<"y">>}
TheChoices == << <<"A">>, <<"B">> >>
Malformed == <<>>

StartTime == MsPerSecond
DurMs == DefaultDurationMinutes * MsPerMinute
WinMs == RevealWindowMinutes * MsPerMinute

\* The instants the clock visits: around the deadline and the reveal deadline
\* of a ballot created or activated at StartTime.
Instants ==
    {StartTime,
     StartTime + DurMs - 1, StartTime + DurMs, StartTime + DurMs + MsPerSecond,
     StartTime + DurMs + WinMs - 1, StartTime + DurMs + WinMs}

SeqRange(s) == {s[i] : i \in DOMAIN s}

NoDuplicates(s) == Cardinality(SeqRange(s)) = Len(s)

----------------------------------------------------------------------------
(* Crypto *)

RECURSIVE Concat(_)
Concat(parts) ==
    IF parts = <<>> THEN <<>> ELSE Head(parts) \o Concat(Tail(parts))

\* Crypto.hash(...inputs): SHA-256 of the concatenated inputs
Hash(inputs) == Concat(inputs)

generateNullifier(voterSecret, ballotId) == Hash(<<voterSecret, ballotId>>)

generateCommitment(choice, salt) == Hash(<<choice, salt>>)

\* 64 hex digits, of either letter case (the pattern is matched with /i)
isValidHash(h) == h # Malformed

\* a comparison that stops at the lengths
constantTimeEqualLengths(a, b) == Len(a) = Len(b)

constantTimeEqual(a, b) == a = b

\* UTF-16 code units of the characters used in choice names
CharCode(c) ==
    CASE c = "," -> 44
      [] c = ":" -> 58
      [] c = "A" -> 65
      [] c = "B" -> 66
      [] c = "C" -> 67
      [] c = "x" -> 120
      [] c = "y" -> 121
      [] OTHER -> 0

\* a < b in the order of Array.prototype.sort() without a comparator
RECURSIVE CodeUnitLess(_, _)
CodeUnitLess(a, b) ==
    IF b = <<>> THEN FALSE
    ELSE IF a = <<>> THEN TRUE
    ELSE IF Head(a) = Head(b) THEN CodeUnitLess(Tail(a), Tail(b))
    ELSE CharCode(Head(a)) < CharCode(Head(b))

RECURSIVE InsertSorted(_, _)
InsertSorted(x, s) ==
    IF s = <<>> THEN <<x>>
    ELSE IF CodeUnitLess(x, Head(s)) THEN <<x>> \o s
    ELSE <<Head(s)>> \o InsertSorted(x, Tail(s))

RECURSIVE SortStrings(_)
SortStrings(s) ==
    IF s = <<>> THEN <<>> ELSE InsertSorted(Head(s), SortStrings(Tail(s)))

RECURSIVE Join(_, _)
Join(s, sep) ==
    IF s = <<>> THEN <<>>
    ELSE IF Len(s) = 1 THEN Head(s)
    ELSE Head(s) \o sep \o Join(Tail(s), sep)

\* entries of a scores object sorted by choice name, each rendered "choice:score"
RECURSIVE InsertEntry(_, _)
InsertEntry(e, s) ==
    IF s = <<>> THEN <<e>>
    ELSE IF CodeUnitLess(e[1], Head(s)[1]) THEN <<e>> \o s
    ELSE <<Head(s)>> \o InsertEntry(e, Tail(s))

RECURSIVE SortEntries(_)
SortEntries(s) ==
    IF s = <<>> THEN <<>> ELSE InsertEntry(Head(s), SortEntries(Tail(s)))

RenderEntries(s) == [i \in DOMAIN s |-> s[i][1] \o <<":">> \o <<ToString(s[i][2])>>]

serializeVoteData(voteData) ==
    CASE voteData.type = "single" -> voteData.choice
      [] voteData.type = "approval" ->
            <<"approval:">> \o Join(SortStrings(voteData.choices), <<",">>)
      [] voteData.type = "ranked" ->
            <<"ranked:">> \o Join(voteData.rankings, <<",">>)
      [] voteData.type = "score" ->
            <<"score:">> \o Join(RenderEntries(SortEntries(voteData.scores)), <<",">>)

generateVoteCommitment(voteData, salt) == Hash(<<serializeVoteData(voteData), salt>>)

verifyVoteCommitment(commitment, voteData, salt) ==
    constantTimeEqual(commitment, generateVoteCommitment(voteData, salt))

----------------------------------------------------------------------------
(* The store (SQLiteStore and InMemoryStore) *)

\* the ballot as it is read back: the SQLite row has no column for voteType
StoredBallot(kind, ballot) ==
    IF kind = "sqlite" THEN [ballot EXCEPT !.voteType = Null] ELSE ballot

\* the reveal as it is read back: the SQLite row has no column for voteData
StoredReveal(kind, reveal) ==
    IF kind = "sqlite" THEN [reveal EXCEPT !.voteData = Null] ELSE reveal

saveBallot(bs, kind, ballot) == [bs EXCEPT ![ballot.id] = StoredBallot(kind, ballot)]

updateBallotStatus(bs, id, status) ==
    IF bs[id] # Null THEN [bs EXCEPT ![id].status = status] ELSE bs

updateBallotDeadlines(bs, id, deadline, revealDeadline) ==
    IF bs[id] # Null
    THEN [bs EXCEPT ![id].deadline = deadline, ![id].revealDeadline = revealDeadline]
    ELSE bs

\* a table without the unique index on (ballot_id, nullifier)
saveVoteAppend(vs, vote) == vs \cup {vote}

saveVote(vs, vote) ==
    IF \E v \in vs : v.ballotId = vote.ballotId /\ v.nullifier = vote.nullifier
    THEN vs
    ELSE vs \cup {vote}

getVotesByBallot(vs, ballotId) == {v \in vs : v.ballotId = ballotId}

\* a lookup that matches the commitment column instead of the nullifier column
hasNullifierByCommitment(vs, ballotId, nullifier) ==
    \E v \in vs : v.ballotId = ballotId /\ v.commitment = nullifier

hasNullifier(vs, ballotId, nullifier) ==
    \E v \in vs : v.ballotId = ballotId /\ v.nullifier = nullifier

saveReveal(rs, kind, reveal) ==
    IF \E r \in rs : r.ballotId = reveal.ballotId /\ r.nullifier = reveal.nullifier
    THEN rs
    ELSE rs \cup {StoredReveal(kind, reveal)}

getRevealsByBallot(rs, ballotId) == {r \in rs : r.ballotId = ballotId}

getRevealByNullifier(rs, ballotId, nullifier) ==
    IF \E r \in rs : r.ballotId = ballotId /\ r.nullifier = nullifier
    THEN CHOOSE r \in rs : r.ballotId = ballotId /\ r.nullifier = nullifier
    ELSE Null

saveResult(res, result) == [res EXCEPT ![result.ballotId] = result]

savePetitionSignature(sigs, signature) ==
    IF \E s \in sigs : s.ballotId = signature.ballotId /\ s.publicKey = signature.publicKey
    THEN sigs
    ELSE sigs \cup {signature}

getPetitionSignatures(sigs, ballotId) == {s \in sigs : s.ballotId = ballotId}

----------------------------------------------------------------------------
(* BallotManager *)

computeStatus(ballot, n) ==
    IF ballot.status = "petition" THEN "petition"
    ELSE IF ballot.status = "finalized" THEN "finalized"
    ELSE IF n < ballot.deadline THEN "voting"
    ELSE IF n < ballot.revealDeadline THEN "revealing"
    ELSE "finalized"

\* a window that is still open at the deadline itself
isAcceptingVotesInclusive(ballot, n) ==
    IF ballot.status = "petition" THEN FALSE ELSE n <= ballot.deadline

isAcceptingVotes(ballot, n) ==
    IF ballot.status = "petition" THEN FALSE ELSE n < ballot.deadline

isPetition(ballot) == ballot.status = "petition"

\* a reveal window that opens only after the deadline
isAcceptingRevealsAfter(ballot, n) == n > ballot.deadline /\ n < ballot.revealDeadline

isAcceptingReveals(ballot, n) == n >= ballot.deadline /\ n < ballot.revealDeadline

isFinalized(ballot, n) == n >= ballot.revealDeadline \/ ballot.status = "finalized"

----------------------------------------------------------------------------
(* Collaborators *)

\* Witness.attest(hash): an attestation of the hash, stamped in Unix seconds
attest(hash, n) == [hash |-> hash, timestamp |-> n \div MsPerSecond]

\* MockFreebirdAdapter.verify(token)
verify(tokens, token, n) ==
    IF token.expiresAt < n THEN FALSE
    ELSE \E k \in tokens : k.blindedToken = token.blindedToken

ForgedToken == [blindedToken |-> 0, expiresAt |-> TokenTTL]

----------------------------------------------------------------------------
(* Tasks: one record per operation in flight *)

\* WebSocketHyperTokenAdapter after construction: no socket, no reconnect
\* timer; `closing` counts the sockets closed by close() whose close event is
\* still to come, `stopped` records that disconnect() was called since the
\* last connect() by start()
NoRelay ==
    [ws |-> "none", reconnectTimer |-> "none", reconnectAttempts |-> 0, closing |-> 0,
     stopped |-> FALSE]

\* RequestBatcher after construction: empty queue, no timer, not processing;
\* `batch`, `order`, `pos` and `results` are the locals of the processBatch and
\* processBatchedEligibility in flight, `leaked` counts the timers that are
\* pending but no longer held in `timer`
NoBatcher ==
    [queue |-> <<>>, timer |-> "none", processing |-> FALSE, batch |-> <<>>,
     order |-> <<>>, pos |-> 0, results |-> <<>>, leaked |-> 0]

IdleTask ==
    [op |-> "idle", pc |-> "idle", ret |-> "", req |-> Null, ballot |-> Null,
     n |-> 0, flag |-> FALSE, att |-> Null, aux |-> Null, updatedStatus |-> "",
     out |-> "", val |-> Null]

Task(t) == tasks[t]

SetTask(t, changes) == tasks' = [tasks EXCEPT ![t] = Upd(@, changes)]

\* the operation settles: its promise resolves with val or rejects with out
Finish(t, out, val) ==
    tasks' = [tasks EXCEPT ![t] =
                 Upd(IdleTask, [op |-> @.op, pc |-> "done", req |-> @.req,
                                out |-> out, val |-> val])]

Begin(t, op, pc, req, changes) ==
    /\ Task(t).op = "idle"
    /\ \A u \in TaskIds : u < t => Task(u).op # "idle"
    /\ calls < MaxCalls
    /\ calls' = calls + 1
    /\ tasks' = [tasks EXCEPT ![t] =
                    Upd(Upd(IdleTask, [op |-> op, pc |-> pc, req |-> req]), changes)]

\* the caller takes the outcome; the slot is free again
Return(t) ==
    /\ Task(t).pc = "done"
    /\ tasks' = [tasks EXCEPT ![t] = IdleTask]
    /\ UNCHANGED <<storeKind, ballotGate, voterGate, relay, batcher, now, connected, ballots, votes, reveals,
                   results, signatures, issued, sent, nullifiers, peerScores, started, calls>>

\* store.getBallot(id): SQLiteStore builds a new object from the row,
\* InMemoryStore returns the object that is in its map
loadBallot(id) ==
    IF ballots[id] = Null THEN Null
    ELSE IF storeKind = "memory" THEN [id |-> id]
    ELSE ballots[id]

\* the object a task's `ballot` variable refers to
LocalBallot(t) ==
    IF Task(t).ballot = Null THEN Null
    ELSE IF storeKind = "memory" THEN ballots[Task(t).ballot.id]
    ELSE Task(t).ballot

----------------------------------------------------------------------------
(* The environment *)

\* Date.now() advances
Tick(instants) ==
    /\ \E i \in instants : i > now /\ now' = i
    /\ UNCHANGED <<storeKind, ballotGate, voterGate, relay, batcher, connected, ballots, votes, reveals, results,
                   signatures, issued, sent, nullifiers, peerScores, started, tasks, calls>>

\* Prestige.start(): gossip.start() connects the relay adapter and registers
\* the message handler
Start ==
    /\ ~started
    /\ connected' = TRUE
    /\ started' = TRUE
    /\ relay' = IF storeKind = "sqlite"
                THEN [relay EXCEPT !.ws = "open", !.reconnectAttempts = 0, !.stopped = FALSE]
                ELSE relay
    /\ UNCHANGED <<storeKind, ballotGate, voterGate, batcher, now, ballots, votes, reveals, results,
                   signatures, issued, sent, nullifiers, peerScores, tasks, calls>>

\* handleDisconnect(): below maxReconnectAttempts the attempt is counted and
\* connect() is set to run after the back-off
handleDisconnect(r) ==
    IF r.reconnectAttempts < MaxReconnectAttempts
    THEN [r EXCEPT !.reconnectAttempts = @ + 1, !.reconnectTimer = "pending"]
    ELSE r

\* the relay connection closes (the socket's close event): ws.onclose clears
\* the connected flag and calls handleDisconnect()
Disconnect ==
    /\ connected
    /\ connected' = FALSE
    /\ relay' = IF relay.ws = "open" THEN handleDisconnect([relay EXCEPT !.ws = "closed"])
                ELSE relay
    /\ UNCHANGED <<storeKind, ballotGate, voterGate, batcher, now, ballots, votes, reveals, results,
                   signatures, issued, sent, nullifiers, peerScores, started, tasks, calls>>

\* NullifierGossip.stop(): the message handler is taken off, then
\* hypertoken.disconnect(): the reconnect timer is cleared, the socket is
\* closed and dropped, the connected flag is cleared
stop ==
    /\ started
    /\ started' = FALSE
    /\ connected' = FALSE
    /\ relay' = IF storeKind = "sqlite"
                THEN [relay EXCEPT !.reconnectTimer = "none",
                                   !.closing = IF relay.ws = "open" THEN @ + 1 ELSE @,
                                   !.ws = "none",
                                   !.stopped = TRUE]
                ELSE relay
    /\ UNCHANGED <<storeKind, ballotGate, voterGate, batcher, now, ballots, votes, reveals, results,
                   signatures, issued, sent, nullifiers, peerScores, tasks, calls>>

\* the close event of a socket that close() was called on: its onclose is the
\* one connect() gave it
CloseDelivered ==
    /\ relay.closing > 0
    /\ connected' = FALSE
    /\ relay' = handleDisconnect([relay EXCEPT !.closing = @ - 1])
    /\ UNCHANGED <<storeKind, ballotGate, voterGate, batcher, now, ballots, votes, reveals, results,
                   signatures, issued, sent, nullifiers, peerScores, started, tasks, calls>>

\* the reconnect timer runs connect(): a new socket; it opens, or it fails and
\* its close event calls handleDisconnect() again
ReconnectTimerFires(opens) ==
    /\ relay.reconnectTimer = "pending"
    /\ IF opens
       THEN /\ connected' = TRUE
            /\ relay' = [relay EXCEPT !.ws = "open", !.reconnectTimer = "fired",
                                      !.reconnectAttempts = 0]
       ELSE /\ connected' = FALSE
            /\ relay' = handleDisconnect([relay EXCEPT !.ws = "closed",
                                                       !.reconnectTimer = "fired"])
    /\ UNCHANGED <<storeKind, ballotGate, voterGate, batcher, now, ballots, votes, reveals, results,
                   signatures, issued, sent, nullifiers, peerScores, started, tasks, calls>>

\* hypertoken.send(message): TRUE when the message was handed to the relay
send(message) ==
    IF connected THEN sent' = sent \cup {message} ELSE UNCHANGED sent

----------------------------------------------------------------------------
(* Prestige.createBallot, BallotManager.createBallot *)

VoteType(type) ==
    [type |-> type, minScore |-> {}, maxScore |-> {}, minRankings |-> {}, maxRankings |-> {}]

OpenEligibility == [type |-> "open", list |-> {}]

\* String.prototype.trim over names whose only white space is " "
RECURSIVE trimStart(_)
trimStart(s) ==
    IF s # <<>> /\ Head(s) = " " THEN trimStart(Tail(s)) ELSE s

RECURSIVE trimEnd(_)
trimEnd(s) ==
    IF s # <<>> /\ s[Len(s)] = " " THEN trimEnd(SubSeq(s, 1, Len(s) - 1)) ELSE s

trim(s) == trimEnd(trimStart(s))

trimmedChoices(request) == [i \in DOMAIN request.choices |-> trim(request.choices[i])]

\* request.durationMinutes and request.revealWindowMinutes, where given
hasDuration(request) == "durationMinutes" \in DOMAIN request
hasRevealWindow(request) == "revealWindowMinutes" \in DOMAIN request

\* BallotManager.validateBallotRequest: TRUE where it does not throw
validateBallotRequest(request) ==
    /\ Len(request.choices) >= 2
    /\ Len(request.choices) <= MaxChoices
    /\ \A i \in DOMAIN request.choices : Len(trimmedChoices(request)[i]) # 0
    /\ NoDuplicates(trimmedChoices(request))
    /\ hasDuration(request) =>
           /\ request.durationMinutes >= MinDurationMinutes
           /\ request.durationMinutes <= MaxDurationMinutes

\* the gate admits the creator and the request is validated; the ballot is
\* built with the time of this turn and a new id, and its creation is sent to
\* be attested
createBallot(t, id, req) ==
    /\ ballots[id] = Null
    /\ \A u \in TaskIds : Task(u).op = "createBallot" => Task(u).pc = "done"
    /\ LET isPetitionGate == ballotGate = "petition"
           durationMs ==
               (IF hasDuration(req) THEN req.durationMinutes ELSE DefaultDurationMinutes)
                   * MsPerMinute
           revealWindowMs ==
               (IF hasRevealWindow(req) THEN req.revealWindowMinutes ELSE RevealWindowMinutes)
                   * MsPerMinute
           ballot ==
               [id |-> id,
                choices |-> trimmedChoices(req),
                created |-> now,
                deadline |-> IF isPetitionGate THEN 0 ELSE now + durationMs,
                revealDeadline |->
                    IF isPetitionGate THEN 0 ELSE now + durationMs + revealWindowMs,
                eligibility |-> req.eligibility,
                creatorPublicKey |-> req.publicKey,
                status |-> IF isPetitionGate THEN "petition" ELSE "voting",
                voteType |-> req.voteType,
                attestation |-> attest(id, now)]
       IN  IF validateBallotRequest(req)
           THEN Begin(t, "createBallot", "CB_Save", req, [val |-> ballot])
           ELSE Begin(t, "createBallot", "done", req, [out |-> "VALIDATION_ERROR"])
    /\ UNCHANGED <<storeKind, ballotGate, voterGate, relay, batcher, now, connected, ballots, votes, reveals,
                   results, signatures, issued, sent, nullifiers, peerScores, started>>

\* await store.saveBallot(fullBallot)
CB_Save(t) ==
    /\ Task(t).pc = "CB_Save"
    /\ ballots' = saveBallot(ballots, storeKind, Task(t).val)
    /\ SetTask(t, [pc |-> "CB_Broadcast"])
    /\ UNCHANGED <<storeKind, ballotGate, voterGate, relay, batcher, now, connected, votes, reveals, results,
                   signatures, issued, sent, nullifiers, peerScores, started, calls>>

\* await gossip.broadcastBallot(ballot); return ballot
CB_Broadcast(t) ==
    /\ Task(t).pc = "CB_Broadcast"
    /\ send([type |-> "ballot", id |-> Task(t).val.id])
    /\ IF connected THEN Finish(t, "ok", Task(t).val)
                    ELSE Finish(t, "NOT_CONNECTED", Null)
    /\ UNCHANGED <<storeKind, ballotGate, voterGate, relay, batcher, now, connected, ballots, votes, reveals,
                   results, signatures, issued, nullifiers, peerScores, started, calls>>

----------------------------------------------------------------------------
(* BallotManager.getBallot, as called by the operations below *)

\* after store.getBallot: the status is recomputed and written when it differs
GB_Status(t) ==
    /\ Task(t).pc = "GB_Status"
    /\ LET ballot == LocalBallot(t)
           updatedStatus == computeStatus(ballot, now)
       IN  IF ballot # Null /\ updatedStatus # ballot.status
           THEN /\ ballots' = updateBallotStatus(ballots, ballot.id, updatedStatus)
                /\ SetTask(t, [pc |-> "GB_Assign", updatedStatus |-> updatedStatus])
           ELSE /\ SetTask(t, [pc |-> Task(t).ret])
                /\ UNCHANGED ballots
    /\ UNCHANGED <<storeKind, ballotGate, voterGate, relay, batcher, now, connected, votes, reveals, results,
                   signatures, issued, sent, nullifiers, peerScores, started, calls>>

\* after store.updateBallotStatus: ballot.status = updatedStatus; return ballot
GB_Assign(t) ==
    /\ Task(t).pc = "GB_Assign"
    /\ IF storeKind = "memory"
       THEN /\ ballots' = [ballots EXCEPT ![Task(t).ballot.id].status = Task(t).updatedStatus]
            /\ SetTask(t, [pc |-> Task(t).ret, updatedStatus |-> ""])
       ELSE /\ SetTask(t, [pc |-> Task(t).ret, updatedStatus |-> "",
                           ballot |-> [Task(t).ballot EXCEPT !.status =
                                                                 Task(t).updatedStatus]])
            /\ UNCHANGED ballots
    /\ UNCHANGED <<storeKind, ballotGate, voterGate, relay, batcher, now, connected, votes, reveals, results,
                   signatures, issued, sent, nullifiers, peerScores, started, calls>>

----------------------------------------------------------------------------
(* The instance voter gate *)

\* createVoterGate: 'open', 'freebird' (the default) or 'allowlist' over
\* config.voterGateAllowlist
OpenVoterGate == [type |-> "open", allowlist |-> {}]
FreebirdVoterGate == [type |-> "freebird", allowlist |-> {}]
AllowlistVoterGate(allowlist) == [type |-> "allowlist", allowlist |-> allowlist]

\* VoterGate.canVote: the open and the freebird gate allow every key, the
\* allowlist gate the keys of its set
canVote(publicKey) ==
    IF voterGate.type = "allowlist" THEN publicKey \in voterGate.allowlist ELSE TRUE

----------------------------------------------------------------------------
(* VoteManager.requestEligibilityToken *)

\* every known eligibility type admits every key
checkEligibilityByTypeOnly(ballot, publicKey) ==
    ballot.eligibility.type \in {"open", "invite-list", "allowlist"}

checkEligibility(ballot, publicKey) ==
    CASE ballot.eligibility.type = "open" -> TRUE
      [] ballot.eligibility.type = "invite-list" -> publicKey \in ballot.eligibility.list
      [] ballot.eligibility.type = "allowlist" -> publicKey \in ballot.eligibility.list
      [] OTHER -> FALSE

requestEligibilityToken(t, req) ==
    /\ Cardinality(issued) < MaxTokens
    /\ Begin(t, "requestEligibilityToken", "GB_Status", req,
             [ret |-> "RT_Check", ballot |-> loadBallot(req.ballotId)])
    /\ UNCHANGED <<storeKind, ballotGate, voterGate, relay, batcher, now, connected, ballots, votes, reveals,
                   results, signatures, issued, sent, nullifiers, peerScores, started>>

\* processEligibilityRequest after getBallot: petition check, voter gate,
\* ballot eligibility
RT_Check(t) ==
    /\ Task(t).pc = "RT_Check"
    /\ LET ballot == LocalBallot(t)
       IN  IF ballot = Null THEN Finish(t, "BALLOT_NOT_FOUND", Null)
           ELSE IF isPetition(ballot) THEN Finish(t, "BALLOT_IN_PETITION", Null)
           ELSE IF ~canVote(Task(t).req.publicKey)
                THEN Finish(t, "INELIGIBLE", Null)
           ELSE IF ~checkEligibility(ballot, Task(t).req.publicKey)
                THEN Finish(t, "INELIGIBLE", Null)
           ELSE SetTask(t, [pc |-> "RT_Issue"])
    /\ UNCHANGED <<storeKind, ballotGate, voterGate, relay, batcher, now, connected, ballots, votes, reveals,
                   results, signatures, issued, sent, nullifiers, peerScores, started, calls>>

\* freebird.issue(ballotId)
RT_Issue(t) ==
    /\ Task(t).pc = "RT_Issue"
    /\ LET token == [blindedToken |-> Cardinality(issued) + 1,
                     expiresAt |-> now + TokenTTL]
       IN  /\ issued' = issued \cup {token}
           /\ Finish(t, "ok", token)
    /\ UNCHANGED <<storeKind, ballotGate, voterGate, relay, batcher, now, connected, ballots, votes, reveals,
                   results, signatures, sent, nullifiers, peerScores, started, calls>>

----------------------------------------------------------------------------
(* Prestige.castVote, VoteManager.castVote *)

castVote(t, req) ==
    /\ Begin(t, "castVote", "GB_Status", req,
             [ret |-> "CV_Check", ballot |-> loadBallot(req.ballotId)])
    /\ UNCHANGED <<storeKind, ballotGate, voterGate, relay, batcher, now, connected, ballots, votes, reveals,
                   results, signatures, issued, sent, nullifiers, peerScores, started>>

\* steps 1-6: the ballot exists, is not a petition, accepts votes at `now`,
\* the request is well formed; then store.hasNullifier is called
CV_Check(t) ==
    /\ Task(t).pc = "CV_Check"
    /\ LET ballot == LocalBallot(t)
           req == Task(t).req
       IN  IF ballot = Null THEN Finish(t, "BALLOT_NOT_FOUND", Null)
           ELSE IF isPetition(ballot) THEN Finish(t, "BALLOT_IN_PETITION", Null)
           ELSE IF ~isAcceptingVotes(ballot, now) THEN Finish(t, "BALLOT_CLOSED", Null)
           ELSE IF ~isValidHash(req.commitment) THEN Finish(t, "INVALID_COMMITMENT", Null)
           ELSE IF ~isValidHash(req.nullifier) THEN Finish(t, "INVALID_COMMITMENT", Null)
           ELSE SetTask(t, [pc |-> "CV_HasVoted", n |-> now,
                            flag |-> hasNullifier(votes, req.ballotId, req.nullifier)])
    /\ UNCHANGED <<storeKind, ballotGate, voterGate, relay, batcher, now, connected, ballots, votes, reveals,
                   results, signatures, issued, sent, nullifiers, peerScores, started, calls>>

\* step 6-7: a used nullifier is a double vote; else freebird.verify is called
CV_HasVoted(t) ==
    /\ Task(t).pc = "CV_HasVoted"
    /\ IF Task(t).flag THEN Finish(t, "DOUBLE_VOTE", Null)
       ELSE SetTask(t, [pc |-> "CV_Verified",
                        flag |-> verify(issued, Task(t).req.proof, now)])
    /\ UNCHANGED <<storeKind, ballotGate, voterGate, relay, batcher, now, connected, ballots, votes, reveals,
                   results, signatures, issued, sent, nullifiers, peerScores, started, calls>>

\* step 7-8: an invalid token is rejected; else witness.attest is called
CV_Verified(t) ==
    /\ Task(t).pc = "CV_Verified"
    /\ LET req == Task(t).req
           voteHash == Hash(<<req.ballotId, req.nullifier, req.commitment>>)
       IN  IF ~Task(t).flag THEN Finish(t, "INVALID_PROOF", Null)
           ELSE SetTask(t, [pc |-> "CV_Attested", flag |-> FALSE,
                            att |-> attest(voteHash, now)])
    /\ UNCHANGED <<storeKind, ballotGate, voterGate, relay, batcher, now, connected, ballots, votes, reveals,
                   results, signatures, issued, sent, nullifiers, peerScores, started, calls>>

\* step 9-10: the attestation must not be after the deadline; the vote is saved
CV_Attested(t) ==
    /\ Task(t).pc = "CV_Attested"
    /\ LET ballot == LocalBallot(t)
           req == Task(t).req
           attestationMs == Task(t).att.timestamp * MsPerSecond
           vote == [ballotId |-> req.ballotId, nullifier |-> req.nullifier,
                    commitment |-> req.commitment, proof |-> req.proof,
                    attestation |-> Task(t).att]
       IN  IF attestationMs > ballot.deadline
           THEN /\ Finish(t, "TOO_LATE", Null)
                /\ UNCHANGED votes
           ELSE /\ votes' = saveVote(votes, vote)
                /\ SetTask(t, [pc |-> "CV_Saved", val |-> vote])
    /\ UNCHANGED <<storeKind, ballotGate, voterGate, relay, batcher, now, connected, ballots, reveals, results,
                   signatures, issued, sent, nullifiers, peerScores, started, calls>>

\* privacyDelay; return vote; await gossip.broadcastVote(vote); return vote
CV_Saved(t) ==
    /\ Task(t).pc = "CV_Saved"
    /\ send([type |-> "vote", id |-> Task(t).val.nullifier])
    /\ IF connected THEN Finish(t, "ok", Task(t).val)
                    ELSE Finish(t, "NOT_CONNECTED", Null)
    /\ UNCHANGED <<storeKind, ballotGate, voterGate, relay, batcher, now, connected, ballots, votes, reveals,
                   results, signatures, issued, nullifiers, peerScores, started, calls>>

----------------------------------------------------------------------------
(* Prestige.submitReveal, RevealManager.submitReveal *)

\* x ?? d, an optional value being the empty set or a singleton
OrElse(opt, d) == IF opt = {} THEN d ELSE CHOOSE x \in opt : TRUE

\* ballot.voteType?.type ?? 'single'
voteTypeOf(ballot) == IF ballot.voteType = Null THEN "single" ELSE ballot.voteType.type

voteTypeField(ballot, field) == IF ballot.voteType = Null THEN {} ELSE ballot.voteType[field]


\* RevealManager.validateVoteData: TRUE when it does not throw
validateVoteData(voteData, ballot) ==
    /\ voteData.type = voteTypeOf(ballot)
    /\ CASE voteData.type = "single" -> voteData.choice \in SeqRange(ballot.choices)
         [] voteData.type = "approval" ->
               /\ Len(voteData.choices) # 0
               /\ SeqRange(voteData.choices) \subseteq SeqRange(ballot.choices)
               /\ NoDuplicates(voteData.choices)
         [] voteData.type = "ranked" ->
               /\ Len(voteData.rankings) >= OrElse(voteTypeField(ballot, "minRankings"), 1)
               /\ Len(voteData.rankings) <=
                      OrElse(voteTypeField(ballot, "maxRankings"), Len(ballot.choices))
               /\ SeqRange(voteData.rankings) \subseteq SeqRange(ballot.choices)
               /\ NoDuplicates(voteData.rankings)
         [] voteData.type = "score" ->
               \A i \in DOMAIN voteData.scores :
                   /\ voteData.scores[i][1] \in SeqRange(ballot.choices)
                   /\ voteData.scores[i][2] >= OrElse(voteTypeField(ballot, "minScore"), 0)
                   /\ voteData.scores[i][2] <= OrElse(voteTypeField(ballot, "maxScore"), 10)
         [] OTHER -> TRUE

\* request.voteData ?? { type: 'single', choice: request.choice }
voteDataOf(r) == IF r.voteData = Null THEN [type |-> "single", choice |-> r.choice] ELSE r.voteData

\* the commitment recomputed from a reveal for a ballot
computedCommitment(r, ballot) ==
    IF voteTypeOf(ballot) = "single" /\ voteDataOf(r).type = "single"
    THEN generateCommitment(r.choice, r.salt)
    ELSE generateVoteCommitment(voteDataOf(r), r.salt)

\* the array a task got from store.getVotesByBallot: the rows read at the call
\* (SQLiteStore), or the store's own array when it had one (InMemoryStore)
VotesSeen(t) ==
    IF Task(t).flag THEN getVotesByBallot(votes, Task(t).req.ballotId) ELSE Task(t).aux

submitReveal(t, req) ==
    /\ Begin(t, "submitReveal", "GB_Status", req,
             [ret |-> "SR_Check", ballot |-> loadBallot(req.ballotId)])
    /\ UNCHANGED <<storeKind, ballotGate, voterGate, relay, batcher, now, connected, ballots, votes, reveals,
                   results, signatures, issued, sent, nullifiers, peerScores, started>>

\* steps 1-4: the ballot exists and accepts reveals at `now`, the nullifier is
\* well formed; then store.getVotesByBallot is called
SR_Check(t) ==
    /\ Task(t).pc = "SR_Check"
    /\ LET ballot == LocalBallot(t)
           req == Task(t).req
           rows == getVotesByBallot(votes, req.ballotId)
           live == storeKind = "memory" /\ rows # {}
       IN  IF ballot = Null THEN Finish(t, "BALLOT_NOT_FOUND", Null)
           ELSE IF ~isAcceptingReveals(ballot, now)
                THEN IF isAcceptingVotes(ballot, now)
                     THEN Finish(t, "BALLOT_CLOSED", Null)
                     ELSE Finish(t, "BALLOT_NOT_REVEALING", Null)
           ELSE IF ~isValidHash(req.nullifier) THEN Finish(t, "INVALID_REVEAL", Null)
           ELSE SetTask(t, [pc |-> "SR_Votes", n |-> now, flag |-> live,
                            aux |-> IF live THEN {} ELSE rows])
    /\ UNCHANGED <<storeKind, ballotGate, voterGate, relay, batcher, now, connected, ballots, votes, reveals,
                   results, signatures, issued, sent, nullifiers, peerScores, started, calls>>

\* steps 4-8: the original vote is found, the vote data is valid for the ballot
\* and the recomputed commitment is the vote's; then store.getRevealByNullifier
SR_Votes(t) ==
    /\ Task(t).pc = "SR_Votes"
    /\ LET ballot == LocalBallot(t)
           req == Task(t).req
           found == {v \in VotesSeen(t) : v.nullifier = req.nullifier}
           originalVote == CHOOSE v \in found : TRUE
       IN  IF found = {} THEN Finish(t, "INVALID_REVEAL", Null)
           ELSE IF ~validateVoteData(voteDataOf(req), ballot)
                THEN Finish(t, "INVALID_REVEAL", Null)
           ELSE IF ~constantTimeEqual(computedCommitment(req, ballot), originalVote.commitment)
                THEN Finish(t, "INVALID_REVEAL", Null)
           ELSE SetTask(t, [pc |-> "SR_Existing", flag |-> FALSE,
                            aux |-> getRevealByNullifier(reveals, req.ballotId, req.nullifier)])
    /\ UNCHANGED <<storeKind, ballotGate, voterGate, relay, batcher, now, connected, ballots, votes, reveals,
                   results, signatures, issued, sent, nullifiers, peerScores, started, calls>>

\* steps 8-9: a second reveal is rejected; else the reveal is saved
SR_Existing(t) ==
    /\ Task(t).pc = "SR_Existing"
    /\ LET req == Task(t).req
           voteData == voteDataOf(req)
           reveal == [ballotId |-> req.ballotId, nullifier |-> req.nullifier,
                      choice |-> req.choice, salt |-> req.salt,
                      voteData |-> IF voteData.type # "single" THEN voteData ELSE Null]
       IN  IF Task(t).aux # Null
           THEN /\ Finish(t, "INVALID_REVEAL", Null)
                /\ UNCHANGED reveals
           ELSE /\ reveals' = saveReveal(reveals, storeKind, reveal)
                /\ SetTask(t, [pc |-> "SR_Saved", val |-> reveal])
    /\ UNCHANGED <<storeKind, ballotGate, voterGate, relay, batcher, now, connected, ballots, votes, results,
                   signatures, issued, sent, nullifiers, peerScores, started, calls>>

\* privacyDelay; return reveal; await gossip.broadcastReveal(reveal); return reveal
SR_Saved(t) ==
    /\ Task(t).pc = "SR_Saved"
    /\ send([type |-> "reveal", id |-> Task(t).val.nullifier])
    /\ IF connected THEN Finish(t, "ok", Task(t).val)
                    ELSE Finish(t, "NOT_CONNECTED", Null)
    /\ UNCHANGED <<storeKind, ballotGate, voterGate, relay, batcher, now, connected, ballots, votes, reveals,
                   results, signatures, issued, nullifiers, peerScores, started, calls>>

----------------------------------------------------------------------------
(* Prestige.signPetition, PetitionBallotGate.addSignature, activateBallot *)

\* the array store.getPetitionSignatures returns: the rows read at the call
\* (SQLiteStore), or the store's own array when it had one (InMemoryStore)
readSignatures(ballotId) ==
    LET rows == getPetitionSignatures(signatures, ballotId)
        live == storeKind = "memory" /\ rows # {}
    IN  [live |-> live, rows |-> IF live THEN {} ELSE rows]

SignaturesSeen(seen, ballotId) ==
    IF seen.live THEN getPetitionSignatures(signatures, ballotId) ELSE seen.rows

\* the gate is a petition gate, the voter gate admits the signer and the
\* signature is one over the ballot id; then store.getPetitionSignatures
signPetition(t, req) ==
    /\ IF ballotGate # "petition"
       THEN Begin(t, "signPetition", "done", req, [out |-> "VALIDATION_ERROR"])
       ELSE IF ~canVote(req.publicKey)
       THEN Begin(t, "signPetition", "done", req, [out |-> "NOT_ELIGIBLE"])
       ELSE IF ~req.valid
       THEN Begin(t, "signPetition", "done", req, [out |-> "INVALID_SIGNATURE"])
       ELSE Begin(t, "signPetition", "SP_Existing", req,
                  [aux |-> [existing |-> readSignatures(req.ballotId),
                            status |-> Null]])
    /\ UNCHANGED <<storeKind, ballotGate, voterGate, relay, batcher, now, connected, ballots, votes, reveals,
                   results, signatures, issued, sent, nullifiers, peerScores, started>>

\* already signed: getPetitionStatus; else store.savePetitionSignature
SP_Existing(t) ==
    /\ Task(t).pc = "SP_Existing"
    /\ LET req == Task(t).req
           existing == SignaturesSeen(Task(t).aux.existing, req.ballotId)
       IN  IF \E s \in existing : s.publicKey = req.publicKey
           THEN /\ SetTask(t, [pc |-> "SP_AlreadySigned",
                               aux |-> [existing |-> Task(t).aux.existing,
                                        status |-> readSignatures(req.ballotId)]])
                /\ UNCHANGED signatures
           ELSE /\ signatures' = savePetitionSignature(signatures,
                                    [ballotId |-> req.ballotId,
                                     publicKey |-> req.publicKey,
                                     timestamp |-> now])
                /\ SetTask(t, [pc |-> "SP_Saved"])
    /\ UNCHANGED <<storeKind, ballotGate, voterGate, relay, batcher, now, connected, ballots, votes, reveals,
                   results, issued, sent, nullifiers, peerScores, started, calls>>

\* return { added: false, activated: status.activated, status }
SP_AlreadySigned(t) ==
    /\ Task(t).pc = "SP_AlreadySigned"
    /\ LET current == Cardinality(SignaturesSeen(Task(t).aux.status, Task(t).req.ballotId))
           activated == current >= PetitionThreshold
       IN  SetTask(t, [pc |-> "SP_Return", flag |-> activated,
                       val |-> [added |-> FALSE, activated |-> activated,
                                current |-> current]])
    /\ UNCHANGED <<storeKind, ballotGate, voterGate, relay, batcher, now, connected, ballots, votes, reveals,
                   results, signatures, issued, sent, nullifiers, peerScores, started, calls>>

\* after store.savePetitionSignature: getPetitionStatus reads the signatures
SP_Saved(t) ==
    /\ Task(t).pc = "SP_Saved"
    /\ SetTask(t, [pc |-> "SP_Status",
                   aux |-> [existing |-> Task(t).aux.existing,
                            status |-> readSignatures(Task(t).req.ballotId)]])
    /\ UNCHANGED <<storeKind, ballotGate, voterGate, relay, batcher, now, connected, ballots, votes, reveals,
                   results, signatures, issued, sent, nullifiers, peerScores, started, calls>>

\* wasActivated, nowActivated, justActivated;
\* return { added: true, activated: justActivated, status }
SP_Status(t) ==
    /\ Task(t).pc = "SP_Status"
    /\ LET req == Task(t).req
           current == Cardinality(SignaturesSeen(Task(t).aux.status, req.ballotId))
           nowActivated == current >= PetitionThreshold
           wasActivated ==
               Cardinality(SignaturesSeen(Task(t).aux.existing, req.ballotId))
                   < PetitionThreshold
           justActivated == wasActivated /\ nowActivated
       IN  SetTask(t, [pc |-> "SP_Return", flag |-> justActivated,
                       val |-> [added |-> TRUE, activated |-> justActivated,
                                current |-> current]])
    /\ UNCHANGED <<storeKind, ballotGate, voterGate, relay, batcher, now, connected, ballots, votes, reveals,
                   results, signatures, issued, sent, nullifiers, peerScores, started, calls>>

\* if (result.activated) await ballotManager.activateBallot(ballotId), which
\* calls store.getBallot; return result
SP_Return(t) ==
    /\ Task(t).pc = "SP_Return"
    /\ IF Task(t).flag
       THEN SetTask(t, [pc |-> "AB_Loaded", aux |-> Null,
                        ballot |-> loadBallot(Task(t).req.ballotId)])
       ELSE Finish(t, "ok", Task(t).val)
    /\ UNCHANGED <<storeKind, ballotGate, voterGate, relay, batcher, now, connected, ballots, votes, reveals,
                   results, signatures, issued, sent, nullifiers, peerScores, started, calls>>

\* the ballot that was read is in petition status: its deadlines are counted
\* from `now`, the object is changed and store.updateBallotDeadlines is called
AB_Loaded(t) ==
    /\ Task(t).pc = "AB_Loaded"
    /\ LET ballot == LocalBallot(t)
           deadline == now + DurMs
           revealDeadline == now + DurMs + WinMs
       IN  IF ballot = Null
           THEN Finish(t, "Ballot not found", Null) /\ UNCHANGED ballots
           ELSE IF ballot.status # "petition"
           THEN Finish(t, "Ballot is not in petition status", Null) /\ UNCHANGED ballots
           ELSE IF storeKind = "memory"
           THEN /\ ballots' = [ballots EXCEPT ![ballot.id].deadline = deadline,
                                              ![ballot.id].revealDeadline = revealDeadline,
                                              ![ballot.id].status = "voting"]
                /\ SetTask(t, [pc |-> "AB_Deadlines"])
           ELSE /\ ballots' = updateBallotDeadlines(ballots, ballot.id, deadline,
                                                    revealDeadline)
                /\ SetTask(t, [pc |-> "AB_Deadlines",
                               ballot |-> [ballot EXCEPT !.deadline = deadline,
                                                         !.revealDeadline = revealDeadline,
                                                         !.status = "voting"]])
    /\ UNCHANGED <<storeKind, ballotGate, voterGate, relay, batcher, now, connected, votes, reveals, results,
                   signatures, issued, sent, nullifiers, peerScores, started, calls>>

\* await store.updateBallotStatus(ballotId, 'voting'); return ballot
AB_Deadlines(t) ==
    /\ Task(t).pc = "AB_Deadlines"
    /\ ballots' = updateBallotStatus(ballots, Task(t).ballot.id, "voting")
    /\ Finish(t, "ok", Task(t).val)
    /\ UNCHANGED <<storeKind, ballotGate, voterGate, relay, batcher, now, connected, votes, reveals, results,
                   signatures, issued, sent, nullifiers, peerScores, started, calls>>

----------------------------------------------------------------------------
(* Prestige.getBallot, listBallots, getBallotStatus *)

getBallot(t, id) ==
    /\ Begin(t, "getBallot", "GB_Status", [ballotId |-> id],
             [ret |-> "GB_Return", ballot |-> loadBallot(id)])
    /\ UNCHANGED <<storeKind, ballotGate, voterGate, relay, batcher, now, connected, ballots, votes, reveals,
                   results, signatures, issued, sent, nullifiers, peerScores, started>>

GB_Return(t) ==
    /\ Task(t).pc = "GB_Return"
    /\ Finish(t, "ok", LocalBallot(t))
    /\ UNCHANGED <<storeKind, ballotGate, voterGate, relay, batcher, now, connected, ballots, votes, reveals,
                   results, signatures, issued, sent, nullifiers, peerScores, started, calls>>

\* store.listBallots(): the rows of the table, or the objects of the map
listBallots(t) ==
    /\ Begin(t, "listBallots", "LB_Loop", Null,
             [aux |-> [rows |-> [id \in BallotIds |-> loadBallot(id)],
                       pending |-> {id \in BallotIds : ballots[id] # Null}]])
    /\ UNCHANGED <<storeKind, ballotGate, voterGate, relay, batcher, now, connected, ballots, votes, reveals,
                   results, signatures, issued, sent, nullifiers, peerScores, started>>

\* the ballot object of the list
Listed(t, id) ==
    IF storeKind = "memory" THEN ballots[id] ELSE Task(t).aux.rows[id]

\* now = Date.now(), once; the loop runs to the first ballot whose status has
\* changed, assigns it and calls store.updateBallotStatus; return ballots
LB_Loop(t) ==
    /\ Task(t).pc = "LB_Loop"
    /\ LET n == IF Task(t).flag THEN Task(t).n ELSE now
           stale == {id \in Task(t).aux.pending :
                        computeStatus(Listed(t, id), n) # Listed(t, id).status}
       IN  IF stale = {}
           THEN /\ Finish(t, "ok", [id \in BallotIds |-> 
                                       IF Task(t).aux.rows[id] = Null THEN Null
                                       ELSE Listed(t, id)])
                /\ UNCHANGED ballots
           ELSE LET id == CHOOSE id \in stale : TRUE
                    updatedStatus == computeStatus(Listed(t, id), n)
                IN  /\ ballots' = updateBallotStatus(ballots, id, updatedStatus)
                    /\ SetTask(t, [n |-> n, flag |-> TRUE,
                                   aux |-> [rows |-> IF storeKind = "memory"
                                                     THEN Task(t).aux.rows
                                                     ELSE [Task(t).aux.rows EXCEPT
                                                             ![id].status = updatedStatus],
                                            pending |-> Task(t).aux.pending \ {id}]])
    /\ UNCHANGED <<storeKind, ballotGate, voterGate, relay, batcher, now, connected, votes, reveals, results,
                   signatures, issued, sent, nullifiers, peerScores, started, calls>>

getBallotStatus(t, id) ==
    /\ Begin(t, "getBallotStatus", "GB_Status", [ballotId |-> id],
             [ret |-> "GS_Ballot", ballot |-> loadBallot(id)])
    /\ UNCHANGED <<storeKind, ballotGate, voterGate, relay, batcher, now, connected, ballots, votes, reveals,
                   results, signatures, issued, sent, nullifiers, peerScores, started>>

\* no ballot: return null; else voteManager.getVoteCount(id)
GS_Ballot(t) ==
    /\ Task(t).pc = "GS_Ballot"
    /\ IF LocalBallot(t) = Null
       THEN Finish(t, "ok", Null)
       ELSE LET rows == getVotesByBallot(votes, Task(t).req.ballotId)
            IN  SetTask(t, [pc |-> "GS_Count", flag |-> storeKind = "memory" /\ rows # {},
                            aux |-> Cardinality(rows)])
    /\ UNCHANGED <<storeKind, ballotGate, voterGate, relay, batcher, now, connected, ballots, votes, reveals,
                   results, signatures, issued, sent, nullifiers, peerScores, started, calls>>

\* what the status query reports of the ballot: the windows at n, the status at
\* the time of the return
BallotStatusReport(ballot, voteCount, n, petitionStatus, atReturn) ==
    [ballot |-> ballot,
     voteCount |-> voteCount,
     status |-> computeStatus(ballot, atReturn),
     isAcceptingVotes |-> isAcceptingVotes(ballot, n),
     isAcceptingReveals |-> isAcceptingReveals(ballot, n),
     isFinalized |-> isFinalized(ballot, n),
     isPetition |-> isPetition(ballot),
     petitionStatus |-> petitionStatus,
     timeRemaining |-> IF ballot.deadline > n THEN ballot.deadline - n ELSE 0,
     revealTimeRemaining |->
         IF ballot.revealDeadline > n THEN ballot.revealDeadline - n ELSE 0]

\* voteCount = votes.length; now = Date.now(); a petition ballot under the
\* petition gate: getPetitionStatus; else the report is returned
GS_Count(t) ==
    /\ Task(t).pc = "GS_Count"
    /\ LET ballot == LocalBallot(t)
           voteCount == IF Task(t).flag
                        THEN Cardinality(getVotesByBallot(votes, Task(t).req.ballotId))
                        ELSE Task(t).aux
       IN  IF isPetition(ballot) /\ ballotGate = "petition"
           THEN SetTask(t, [pc |-> "GS_Petition", n |-> now, flag |-> FALSE,
                            val |-> voteCount,
                            aux |-> readSignatures(Task(t).req.ballotId)])
           ELSE Finish(t, "ok", BallotStatusReport(ballot, voteCount, now, Null, now))
    /\ UNCHANGED <<storeKind, ballotGate, voterGate, relay, batcher, now, connected, ballots, votes, reveals,
                   results, signatures, issued, sent, nullifiers, peerScores, started, calls>>

GS_Petition(t) ==
    /\ Task(t).pc = "GS_Petition"
    /\ LET current == Cardinality(SignaturesSeen(Task(t).aux, Task(t).req.ballotId))
           petitionStatus == [required |-> PetitionThreshold, current |-> current,
                              activated |-> current >= PetitionThreshold]
       IN  Finish(t, "ok",
                  BallotStatusReport(LocalBallot(t), Task(t).val, Task(t).n, petitionStatus,
                                     now))
    /\ UNCHANGED <<storeKind, ballotGate, voterGate, relay, batcher, now, connected, ballots, votes, reveals,
                   results, signatures, issued, sent, nullifiers, peerScores, started, calls>>

----------------------------------------------------------------------------
(* TallyManager: getResult, computeResult, getLiveTally; verifyAllReveals *)

\* the result as it is read back: the SQLite row has no column for voteType
StoredResult(kind, result) ==
    IF kind = "sqlite" THEN [result EXCEPT !.voteType = Null] ELSE result

loadResult(id) ==
    IF results[id] = Null THEN Null ELSE StoredResult(storeKind, results[id])

\* the array store.getVotesByBallot or store.getRevealsByBallot returns: the
\* rows read at the call (SQLiteStore), or the store's own array when it had
\* one (InMemoryStore)
readRows(rows) ==
    LET live == storeKind = "memory" /\ rows # {}
    IN  [live |-> live, rows |-> IF live THEN {} ELSE rows]

NoRows == [live |-> FALSE, rows |-> {}]

RowsSeen(seen, current) == IF seen.live THEN current ELSE seen.rows

Occurrences(c, s) == Cardinality({i \in DOMAIN s : s[i] = c})

computeSingleChoiceTally(ballot, validVerifications) ==
    [c \in SeqRange(ballot.choices)
           \cup {validVerifications[i].choice : i \in DOMAIN validVerifications} |->
        Cardinality({i \in DOMAIN validVerifications : validVerifications[i].choice = c})]

approvedChoices(reveal) ==
    IF reveal.voteData # Null /\ "choices" \in DOMAIN reveal.voteData
    THEN reveal.voteData.choices
    ELSE <<reveal.choice>>

RECURSIVE Approvals(_, _)
Approvals(c, rs) ==
    IF rs = {} THEN 0
    ELSE LET r == CHOOSE r \in rs : TRUE
         IN  Occurrences(c, approvedChoices(r)) + Approvals(c, rs \ {r})

computeApprovalTally(ballot, rs, validVerifications) ==
    LET validNullifiers ==
            {validVerifications[i].nullifier : i \in DOMAIN validVerifications}
    IN  [c \in SeqRange(ballot.choices) |->
            Approvals(c, {r \in rs : r.nullifier \in validNullifiers})]

\* no choice: what Array.find gives when nothing matches, and a round without
\* an elimination
NoChoice == <<>>

SetMax(S) == CHOOSE x \in S : \A y \in S : y <= x

SetMin(S) == CHOOSE x \in S : \A y \in S : x <= y

\* the keys of an object whose properties are set in the order of `s`: each
\* name once, at the place of its first occurrence
RECURSIVE KeysInOrder(_)
KeysInOrder(s) ==
    IF s = <<>> THEN <<>>
    ELSE <<Head(s)>> \o KeysInOrder(SelectSeq(Tail(s), LAMBDA c : c # Head(s)))

\* voteData?.rankings ?? [reveal.choice]
rankingsOf(reveal) ==
    IF reveal.voteData # Null /\ "rankings" \in DOMAIN reveal.voteData
    THEN reveal.voteData.rankings
    ELSE <<reveal.choice>>

\* the rankings of the reveals with a valid verification, one array per reveal
RECURSIVE validBallots(_)
validBallots(rs) ==
    IF rs = {} THEN <<>>
    ELSE LET r == CHOOSE r \in rs : TRUE
         IN  <<rankingsOf(r)>> \o validBallots(rs \ {r})

\* ballot.find(c => remainingChoices.includes(c))
firstChoice(rankings, remainingChoices) ==
    LET hits == {i \in DOMAIN rankings : rankings[i] \in SeqRange(remainingChoices)}
    IN  IF hits = {} THEN NoChoice ELSE rankings[SetMin(hits)]

\* the votes object of a round: an entry <<choice, count>> for every remaining
\* choice, in the order of remainingChoices
roundVotes(remainingChoices, currentBallots) ==
    LET keys == KeysInOrder(remainingChoices)
    IN  [i \in DOMAIN keys |->
            <<keys[i],
              Cardinality({j \in DOMAIN currentBallots :
                              firstChoice(currentBallots[j], remainingChoices) = keys[i]})>>]

\* the loop variables before the first round
irvStart(choices, ballotsIn) ==
    [remainingChoices |-> choices, currentBallots |-> ballotsIn, rounds |-> <<>>,
     roundNum |-> 1, stopped |-> FALSE]

\* while (remainingChoices.length > 1), unless a break was taken
irvRunning(st) == Len(st.remainingChoices) > 1 /\ ~st.stopped

\* a loop body that records the round and eliminates nothing, without the
\* safety check
irvRoundRecordOnly(st, n) ==
    [st EXCEPT !.rounds = Append(@, [round |-> st.roundNum,
                                     votes |-> roundVotes(st.remainingChoices,
                                                          st.currentBallots),
                                     eliminated |-> NoChoice]),
               !.roundNum = @ + 1]

\* one pass of the loop body of computeRankedChoiceTally, n = ballot.choices.length
irvRound(st, n) ==
    LET roundCount == roundVotes(st.remainingChoices, st.currentBallots)
        counts == {roundCount[i][2] : i \in DOMAIN roundCount}
        totalVotes == Len(st.currentBallots)
        majorityNeeded == (totalVotes \div 2) + 1
        maxVotes == SetMax(counts)
        minVotes == SetMin(counts)
        toEliminate == SelectSeq(roundCount, LAMBDA e : e[2] = minVotes)
        eliminated == toEliminate[1][1]
    IN  IF maxVotes >= majorityNeeded
        THEN [st EXCEPT !.rounds = Append(@, [round |-> st.roundNum, votes |-> roundCount,
                                              eliminated |-> NoChoice]),
                        !.stopped = TRUE]
        ELSE [remainingChoices |->
                  SelectSeq(st.remainingChoices, LAMBDA c : c # eliminated),
              currentBallots |->
                  [j \in DOMAIN st.currentBallots |->
                      SelectSeq(st.currentBallots[j], LAMBDA c : c # eliminated)],
              rounds |-> Append(st.rounds, [round |-> st.roundNum, votes |-> roundCount,
                                            eliminated |-> eliminated]),
              roundNum |-> st.roundNum + 1,
              stopped |-> st.roundNum + 1 > n + 1]

RECURSIVE irvLoop(_, _)
irvLoop(st, n) == IF irvRunning(st) THEN irvLoop(irvRound(st, n), n) ELSE st

\* the final tally: 0 for every choice, then the votes of the last round
finalTally(choices, rounds) ==
    [c \in SeqRange(choices) |->
        IF rounds = <<>> THEN 0
        ELSE LET last == rounds[Len(rounds)].votes
                 at == {i \in DOMAIN last : last[i][1] = c}
             IN  IF at = {} THEN 0 ELSE last[CHOOSE i \in at : TRUE][2]]

computeRankedChoiceTally(ballot, rs, validVerifications) ==
    LET validNullifiers ==
            {validVerifications[i].nullifier : i \in DOMAIN validVerifications}
        start == irvStart(ballot.choices,
                          validBallots({r \in rs : r.nullifier \in validNullifiers}))
    IN  finalTally(ballot.choices, irvLoop(start, Len(ballot.choices)).rounds)

\* Object.entries(voteData.scores), or nothing when the reveal has no scores
scoresOf(reveal) ==
    IF reveal.voteData # Null /\ "scores" \in DOMAIN reveal.voteData
    THEN reveal.voteData.scores
    ELSE <<>>

RECURSIVE ScoreSum(_, _)
ScoreSum(c, entries) ==
    IF entries = <<>> THEN 0
    ELSE (IF Head(entries)[1] = c THEN Head(entries)[2] ELSE 0) + ScoreSum(c, Tail(entries))

RECURSIVE TotalScore(_, _)
TotalScore(c, rs) ==
    IF rs = {} THEN 0
    ELSE LET r == CHOOSE r \in rs : TRUE
         IN  ScoreSum(c, scoresOf(r)) + TotalScore(c, rs \ {r})

\* totalScores of computeScoreTally
computeScoreTally(ballot, rs, validVerifications) ==
    LET validNullifiers ==
            {validVerifications[i].nullifier : i \in DOMAIN validVerifications}
    IN  [c \in SeqRange(ballot.choices) |->
            TotalScore(c, {r \in rs : r.nullifier \in validNullifiers})]

\* the tally of computeTallyByType: by the vote type, single choice by default
computeTallyByType(ballot, rs, validVerifications, voteType) ==
    CASE voteType = "approval" -> computeApprovalTally(ballot, rs, validVerifications)
      [] voteType = "ranked" -> computeRankedChoiceTally(ballot, rs, validVerifications)
      [] voteType = "score" -> computeScoreTally(ballot, rs, validVerifications)
      [] OTHER -> computeSingleChoiceTally(ballot, validVerifications)

\* JSON.stringify(tally, Object.keys(tally).sort())
canonicalJson(tally) ==
    LET keys == SortStrings(CHOOSE s \in [1..Cardinality(DOMAIN tally) -> DOMAIN tally] :
                                SeqRange(s) = DOMAIN tally)
    IN  <<"{">>
        \o Join([i \in DOMAIN keys |->
                    <<"\"">> \o keys[i] \o <<"\":", ToString(tally[keys[i]])>>], <<",">>)
        \o <<"}">>

SelectValid(verifications) == SelectSeq(verifications, LAMBDA v : v.valid)

\* verifyReveal, once the ballot and the votes are there
verification(reveal, ballot, vs) ==
    IF ballot = Null \/ ~\E v \in vs : v.nullifier = reveal.nullifier
    THEN [nullifier |-> reveal.nullifier, choice |-> reveal.choice, valid |-> FALSE]
    ELSE LET originalVote == CHOOSE v \in vs : v.nullifier = reveal.nullifier
         IN  [nullifier |-> reveal.nullifier, choice |-> reveal.choice,
              valid |-> constantTimeEqual(computedCommitment(reveal, ballot),
                                          originalVote.commitment)]

\* Prestige.getResults -> TallyManager.getResult: store.getResult
getResults(t, id) ==
    /\ Begin(t, "getResults", "GR_Existing", [ballotId |-> id], [val |-> loadResult(id)])
    /\ UNCHANGED <<storeKind, ballotGate, voterGate, relay, batcher, now, connected, ballots, votes, reveals,
                   results, signatures, issued, sent, nullifiers, peerScores, started>>

\* a stored result is returned; else ballotManager.getBallot
GR_Existing(t) ==
    /\ Task(t).pc = "GR_Existing"
    /\ IF Task(t).val # Null
       THEN Finish(t, "ok", Task(t).val)
       ELSE SetTask(t, [pc |-> "GB_Status", ret |-> "GR_Ballot",
                        ballot |-> loadBallot(Task(t).req.ballotId)])
    /\ UNCHANGED <<storeKind, ballotGate, voterGate, relay, batcher, now, connected, ballots, votes, reveals,
                   results, signatures, issued, sent, nullifiers, peerScores, started, calls>>

\* no ballot: null; isFinalized(ballot): computeResult, which calls
\* store.getResult; else null
GR_Ballot(t) ==
    /\ Task(t).pc = "GR_Ballot"
    /\ IF LocalBallot(t) = Null THEN Finish(t, "ok", Null)
       ELSE IF isFinalized(LocalBallot(t), now)
       THEN SetTask(t, [pc |-> "CR_Existing", val |-> loadResult(Task(t).req.ballotId)])
       ELSE Finish(t, "ok", Null)
    /\ UNCHANGED <<storeKind, ballotGate, voterGate, relay, batcher, now, connected, ballots, votes, reveals,
                   results, signatures, issued, sent, nullifiers, peerScores, started, calls>>

\* computeResult: a stored result is returned; else ballotManager.getBallot
CR_Existing(t) ==
    /\ Task(t).pc = "CR_Existing"
    /\ IF Task(t).val # Null
       THEN Finish(t, "ok", Task(t).val)
       ELSE SetTask(t, [pc |-> "GB_Status", ret |-> "CR_Ballot",
                        ballot |-> loadBallot(Task(t).req.ballotId)])
    /\ UNCHANGED <<storeKind, ballotGate, voterGate, relay, batcher, now, connected, ballots, votes, reveals,
                   results, signatures, issued, sent, nullifiers, peerScores, started, calls>>

\* the locals of computeResult and getLiveTally, as store.getVotesByBallot is called
TallyLocals(t) ==
    [outer |-> Task(t).ballot,
     votes |-> readRows(getVotesByBallot(votes, Task(t).req.ballotId)),
     reveals |-> NoRows, list |-> NoRows, seen |-> NoRows,
     cur |-> Null, visited |-> {}, verifications |-> <<>>,
     tally |-> Null, validReveals |-> 0]

\* now = Date.now(); the ballot is finalized at now; store.getVotesByBallot
CR_Ballot(t) ==
    /\ Task(t).pc = "CR_Ballot"
    /\ IF LocalBallot(t) = Null THEN Finish(t, "BALLOT_NOT_FOUND", Null)
       ELSE IF ~isFinalized(LocalBallot(t), now) THEN Finish(t, "BALLOT_CLOSED", Null)
       ELSE SetTask(t, [pc |-> "TV_Votes", n |-> now, aux |-> TallyLocals(t)])
    /\ UNCHANGED <<storeKind, ballotGate, voterGate, relay, batcher, now, connected, ballots, votes, reveals,
                   results, signatures, issued, sent, nullifiers, peerScores, started, calls>>

\* Prestige.getLiveTally -> TallyManager.getLiveTally: ballotManager.getBallot
getLiveTally(t, id) ==
    /\ Begin(t, "getLiveTally", "GB_Status", [ballotId |-> id],
             [ret |-> "LT_Ballot", ballot |-> loadBallot(id)])
    /\ UNCHANGED <<storeKind, ballotGate, voterGate, relay, batcher, now, connected, ballots, votes, reveals,
                   results, signatures, issued, sent, nullifiers, peerScores, started>>

LT_Ballot(t) ==
    /\ Task(t).pc = "LT_Ballot"
    /\ IF LocalBallot(t) = Null THEN Finish(t, "BALLOT_NOT_FOUND", Null)
       ELSE SetTask(t, [pc |-> "TV_Votes", aux |-> TallyLocals(t)])
    /\ UNCHANGED <<storeKind, ballotGate, voterGate, relay, batcher, now, connected, ballots, votes, reveals,
                   results, signatures, issued, sent, nullifiers, peerScores, started, calls>>

\* reveals = await store.getRevealsByBallot(ballotId)
TV_Votes(t) ==
    /\ Task(t).pc = "TV_Votes"
    /\ SetTask(t, [pc |-> "TV_Reveals",
                   aux |-> [Task(t).aux EXCEPT !.reveals =
                               readRows(getRevealsByBallot(reveals, Task(t).req.ballotId))]])
    /\ UNCHANGED <<storeKind, ballotGate, voterGate, relay, batcher, now, connected, ballots, votes, reveals,
                   results, signatures, issued, sent, nullifiers, peerScores, started, calls>>

\* verifyAllReveals: reveals = await store.getRevealsByBallot(ballotId)
TV_Reveals(t) ==
    /\ Task(t).pc = "TV_Reveals"
    /\ SetTask(t, [pc |-> "VA_Loop",
                   aux |-> [Task(t).aux EXCEPT !.list =
                               readRows(getRevealsByBallot(reveals, Task(t).req.ballotId))]])
    /\ UNCHANGED <<storeKind, ballotGate, voterGate, relay, batcher, now, connected, ballots, votes, reveals,
                   results, signatures, issued, sent, nullifiers, peerScores, started, calls>>

\* the votes, the reveals and the list of verifyAllReveals as the task sees them
TallyVotes(t) == RowsSeen(Task(t).aux.votes, getVotesByBallot(votes, Task(t).req.ballotId))

TallyReveals(t) ==
    RowsSeen(Task(t).aux.reveals, getRevealsByBallot(reveals, Task(t).req.ballotId))

TallyList(t) ==
    RowsSeen(Task(t).aux.list, getRevealsByBallot(reveals, Task(t).req.ballotId))

\* the ballot of computeResult or getLiveTally: the object read before the loop
OuterBallot(t) ==
    IF Task(t).aux.outer = Null THEN Null
    ELSE IF storeKind = "memory" THEN ballots[Task(t).aux.outer.id]
    ELSE Task(t).aux.outer

\* for (const reveal of reveals): verifyReveal calls ballotManager.getBallot;
\* after the loop the tally is computed: getLiveTally returns it, computeResult
\* hashes it and calls witness.attest
VA_Loop(t) ==
    /\ Task(t).pc = "VA_Loop"
    /\ LET aux == Task(t).aux
           ballot == OuterBallot(t)
           rest == {r \in TallyList(t) : r.nullifier \notin aux.visited}
           validVerifications == SelectValid(aux.verifications)
           voteType == voteTypeOf(ballot)
           tally == computeTallyByType(ballot, TallyReveals(t), validVerifications, voteType)
           resultHash == Hash(<<Task(t).req.ballotId, canonicalJson(tally),
                                <<ToString(Cardinality(TallyVotes(t)))>>,
                                <<ToString(Len(validVerifications))>> >>)
       IN  IF rest # {}
           THEN LET reveal == CHOOSE r \in rest : TRUE
                IN  SetTask(t, [pc |-> "GB_Status", ret |-> "VR_Ballot",
                                ballot |-> loadBallot(Task(t).req.ballotId),
                                aux |-> [aux EXCEPT !.cur = reveal,
                                                    !.visited = @ \cup {reveal.nullifier}]])
           ELSE IF Task(t).op = "getLiveTally"
           THEN Finish(t, "ok",
                       [ballotId |-> Task(t).req.ballotId,
                        tally |-> tally,
                        totalVotes |-> Cardinality(TallyVotes(t)),
                        totalReveals |-> Len(aux.verifications),
                        validReveals |-> Len(validVerifications),
                        isFinalized |-> isFinalized(ballot, now),
                        status |-> computeStatus(ballot, now),
                        voteType |-> voteType])
           ELSE SetTask(t, [pc |-> "CR_Attested", att |-> attest(resultHash, now),
                            aux |-> [aux EXCEPT !.tally = tally,
                                                !.validReveals = Len(validVerifications)]])
    /\ UNCHANGED <<storeKind, ballotGate, voterGate, relay, batcher, now, connected, ballots, votes, reveals,
                   results, signatures, issued, sent, nullifiers, peerScores, started, calls>>

\* verifyReveal: votes = await store.getVotesByBallot(ballotId); without the
\* ballot the reveal is not valid
VR_Ballot(t) ==
    /\ Task(t).pc = "VR_Ballot"
    /\ LET aux == Task(t).aux
       IN  IF LocalBallot(t) = Null
           THEN SetTask(t, [pc |-> "VA_Loop", ballot |-> aux.outer,
                            aux |-> [aux EXCEPT !.cur = Null,
                                        !.verifications =
                                            Append(@, verification(aux.cur, Null, {}))]])
           ELSE SetTask(t, [pc |-> "VR_Votes",
                            aux |-> [aux EXCEPT !.seen =
                                        readRows(getVotesByBallot(votes,
                                                                  Task(t).req.ballotId))]])
    /\ UNCHANGED <<storeKind, ballotGate, voterGate, relay, batcher, now, connected, ballots, votes, reveals,
                   results, signatures, issued, sent, nullifiers, peerScores, started, calls>>

\* the original vote is looked up and the commitment recomputed;
\* verifications.push(verification)
VR_Votes(t) ==
    /\ Task(t).pc = "VR_Votes"
    /\ LET aux == Task(t).aux
           vs == RowsSeen(aux.seen, getVotesByBallot(votes, Task(t).req.ballotId))
       IN  SetTask(t, [pc |-> "VA_Loop", ballot |-> aux.outer,
                       aux |-> [aux EXCEPT !.cur = Null, !.seen = NoRows,
                                   !.verifications =
                                       Append(@, verification(aux.cur, LocalBallot(t), vs))]])
    /\ UNCHANGED <<storeKind, ballotGate, voterGate, relay, batcher, now, connected, ballots, votes, reveals,
                   results, signatures, issued, sent, nullifiers, peerScores, started, calls>>

\* the result is built and store.saveResult is called
CR_Attested(t) ==
    /\ Task(t).pc = "CR_Attested"
    /\ LET aux == Task(t).aux
           result == [ballotId |-> Task(t).req.ballotId,
                      tally |-> aux.tally,
                      totalVotes |-> Cardinality(TallyVotes(t)),
                      totalReveals |-> Len(aux.verifications),
                      validReveals |-> aux.validReveals,
                      attestation |-> Task(t).att,
                      finalized |-> Task(t).n,
                      voteType |-> voteTypeOf(OuterBallot(t))]
       IN  /\ results' = saveResult(results, result)
           /\ SetTask(t, [pc |-> "CR_Saved", val |-> result, aux |-> Null, att |-> Null])
    /\ UNCHANGED <<storeKind, ballotGate, voterGate, relay, batcher, now, connected, ballots, votes, reveals,
                   signatures, issued, sent, nullifiers, peerScores, started, calls>>

\* await store.updateBallotStatus(ballotId, 'finalized'); return result
CR_Saved(t) ==
    /\ Task(t).pc = "CR_Saved"
    /\ ballots' = updateBallotStatus(ballots, Task(t).req.ballotId, "finalized")
    /\ Finish(t, "ok", Task(t).val)
    /\ UNCHANGED <<storeKind, ballotGate, voterGate, relay, batcher, now, connected, votes, reveals, results,
                   signatures, issued, sent, nullifiers, peerScores, started, calls>>

----------------------------------------------------------------------------
(* GossipManager.handleMessage: onReceiveVote, onReceiveReveal,
   onReceiveBallot, onReceiveResult *)

getPeerScore(ps, peerId) ==
    IF ps[peerId] = Null
    THEN [score |-> InitialPeerScore, validMessages |-> 0, invalidProofs |-> 0,
          duplicates |-> 0]
    ELSE ps[peerId]

\* a penalty of one point whatever the amount asked for
penalizePeerByOne(ps, peerId, reason, amount) ==
    [ps EXCEPT ![peerId] =
        [getPeerScore(ps, peerId) EXCEPT
            !.score = @ - DuplicatePenalty,
            !.invalidProofs = IF reason = "invalid_proof" THEN @ + 1 ELSE @,
            !.duplicates = IF reason = "duplicate" THEN @ + 1 ELSE @]]

penalizePeer(ps, peerId, reason, amount) ==
    [ps EXCEPT ![peerId] =
        [getPeerScore(ps, peerId) EXCEPT
            !.score = @ - amount,
            !.invalidProofs = IF reason = "invalid_proof" THEN @ + 1 ELSE @,
            !.duplicates = IF reason = "duplicate" THEN @ + 1 ELSE @]]

rewardPeer(ps, peerId) ==
    [ps EXCEPT ![peerId] =
        [getPeerScore(ps, peerId) EXCEPT
            !.score = IF @ + 1 > InitialPeerScore THEN InitialPeerScore ELSE @ + 1,
            !.validMessages = @ + 1]]

\* the handler returns after penalizePeer(sender, reason, amount)
Penalized(t, reason, amount) ==
    /\ peerScores' = penalizePeer(peerScores, Task(t).req.sender, reason, amount)
    /\ Finish(t, reason, Null)

\* WitnessAdapter.verify(attestation), as the witness service answers it
witnessVerify(message) == message.attested

\* `${ballotId}:${nullifier}`
nullifierKey(ballotId, nullifier) == ballotId \o <<":">> \o nullifier

\* the envelope's signature is checked, then the sender's score; a vote or a
\* reveal starts with ballotManager.getBallot, a ballot or a result with
\* witness.verify
handleMessage(t, message) ==
    /\ started
    /\ IF ~message.signed
       THEN /\ Begin(t, "handleMessage", "done", message, [out |-> "invalid_signature"])
            /\ peerScores' = penalizePeer(peerScores, message.sender,
                                          "invalid_signature", DefaultPenalty)
       ELSE /\ peerScores' = [peerScores EXCEPT ![message.sender] =
                                 getPeerScore(peerScores, message.sender)]
            /\ IF getPeerScore(peerScores, message.sender).score < PeerScoreThreshold
               THEN Begin(t, "handleMessage", "done", message, [out |-> "ignored"])
               ELSE IF message.type \in {"vote", "reveal"}
               THEN Begin(t, "handleMessage", "GB_Status", message,
                          [ret |-> IF message.type = "vote" THEN "RV_Ballot"
                                                          ELSE "RR_Ballot",
                           ballot |-> loadBallot(message.payload.ballotId)])
               ELSE Begin(t, "handleMessage", "RX_Attested", message, <<>>)
    /\ UNCHANGED <<storeKind, ballotGate, voterGate, relay, batcher, now, connected, ballots, votes, reveals,
                   results, signatures, issued, sent, nullifiers, started>>

\* onReceiveVote 1-2: the ballot is known; freebird.verify(vote.proof)
RV_Ballot(t) ==
    /\ Task(t).pc = "RV_Ballot"
    /\ IF LocalBallot(t) = Null
       THEN Penalized(t, "unknown_ballot", DefaultPenalty)
       ELSE /\ SetTask(t, [pc |-> "RV_Verified",
                           flag |-> verify(issued, Task(t).req.payload.proof, now)])
            /\ UNCHANGED peerScores
    /\ UNCHANGED <<storeKind, ballotGate, voterGate, relay, batcher, now, connected, ballots, votes, reveals,
                   results, signatures, issued, sent, nullifiers, started, calls>>

\* onReceiveVote 2-5: the token and the attestation are valid, the attestation
\* is not after the deadline, the nullifier is new to the cache; the cache entry
\* is set and store.saveVote is called
RV_Verified(t) ==
    /\ Task(t).pc = "RV_Verified"
    /\ LET vote == Task(t).req.payload
           key == nullifierKey(vote.ballotId, vote.nullifier)
           seen == {e \in nullifiers : e.key = key}
       IN  IF ~Task(t).flag
           THEN Penalized(t, "invalid_proof", DefaultPenalty)
                /\ UNCHANGED <<nullifiers, votes>>
           ELSE IF ~witnessVerify(Task(t).req)
           THEN Penalized(t, "invalid_attestation", DefaultPenalty)
                /\ UNCHANGED <<nullifiers, votes>>
           ELSE IF vote.attestation.timestamp * MsPerSecond > LocalBallot(t).deadline
           THEN Penalized(t, "too_late", DefaultPenalty)
                /\ UNCHANGED <<nullifiers, votes>>
           ELSE IF seen # {}
           THEN LET existing == CHOOSE e \in seen : TRUE
                IN  /\ nullifiers' = (nullifiers \ {existing})
                           \cup {[existing EXCEPT !.peerCount = @ + 1]}
                    /\ IF existing.commitment # vote.commitment
                       THEN Penalized(t, "double_vote", DefaultPenalty)
                       ELSE Penalized(t, "duplicate", DuplicatePenalty)
                    /\ UNCHANGED votes
           ELSE /\ nullifiers' = nullifiers
                       \cup {[key |-> key, ballotId |-> vote.ballotId,
                              nullifier |-> vote.nullifier,
                              commitment |-> vote.commitment,
                              timestamp |-> vote.attestation.timestamp,
                              peerCount |-> 1]}
                /\ votes' = saveVote(votes, vote)
                /\ SetTask(t, [pc |-> "HM_Saved"])
                /\ UNCHANGED peerScores
    /\ UNCHANGED <<storeKind, ballotGate, voterGate, relay, batcher, now, connected, ballots, reveals, results,
                   signatures, issued, sent, started, calls>>

\* what an envelope is recorded by once it was handed to the relay
payloadId(message) ==
    IF message.type \in {"vote", "reveal"} THEN message.payload.nullifier
    ELSE IF message.type = "ballot" THEN message.payload.id
    ELSE message.payload.ballotId

\* rewardPeer(peerId); the payload is broadcast
HM_Saved(t) ==
    /\ Task(t).pc = "HM_Saved"
    /\ peerScores' = rewardPeer(peerScores, Task(t).req.sender)
    /\ send([type |-> Task(t).req.type, id |-> payloadId(Task(t).req)])
    /\ IF connected THEN Finish(t, "ok", Null) ELSE Finish(t, "NOT_CONNECTED", Null)
    /\ UNCHANGED <<storeKind, ballotGate, voterGate, relay, batcher, now, connected, ballots, votes, reveals,
                   results, signatures, issued, nullifiers, started, calls>>

\* onReceiveReveal: the ballot is known and accepts reveals; store.getVotesByBallot
RR_Ballot(t) ==
    /\ Task(t).pc = "RR_Ballot"
    /\ IF LocalBallot(t) = Null
       THEN Penalized(t, "unknown_ballot", DefaultPenalty)
       ELSE IF ~isAcceptingReveals(LocalBallot(t), now)
       THEN Penalized(t, "wrong_phase", DefaultPenalty)
       ELSE /\ SetTask(t, [pc |-> "RR_Votes",
                           aux |-> readRows(getVotesByBallot(votes,
                                               Task(t).req.payload.ballotId))])
            /\ UNCHANGED peerScores
    /\ UNCHANGED <<storeKind, ballotGate, voterGate, relay, batcher, now, connected, ballots, votes, reveals,
                   results, signatures, issued, sent, nullifiers, started, calls>>

\* onReceiveReveal: the original vote is there and generateCommitment(choice,
\* salt) is its commitment; store.getRevealByNullifier
RR_Votes(t) ==
    /\ Task(t).pc = "RR_Votes"
    /\ LET reveal == Task(t).req.payload
           vs == RowsSeen(Task(t).aux, getVotesByBallot(votes, reveal.ballotId))
           found == {v \in vs : v.nullifier = reveal.nullifier}
       IN  IF found = {}
           THEN Penalized(t, "no_matching_vote", DefaultPenalty)
           ELSE IF ~constantTimeEqual(generateCommitment(reveal.choice, reveal.salt),
                                      (CHOOSE v \in found : TRUE).commitment)
           THEN Penalized(t, "invalid_reveal", DefaultPenalty)
           ELSE /\ SetTask(t, [pc |-> "RR_Existing", aux |-> Null,
                               val |-> getRevealByNullifier(reveals, reveal.ballotId,
                                                            reveal.nullifier)])
                /\ UNCHANGED peerScores
    /\ UNCHANGED <<storeKind, ballotGate, voterGate, relay, batcher, now, connected, ballots, votes, reveals,
                   results, signatures, issued, sent, nullifiers, started, calls>>

\* onReceiveReveal: a reveal that is already stored is a duplicate; else
\* store.saveReveal
RR_Existing(t) ==
    /\ Task(t).pc = "RR_Existing"
    /\ IF Task(t).val # Null
       THEN Penalized(t, "duplicate", DuplicatePenalty) /\ UNCHANGED reveals
       ELSE /\ reveals' = saveReveal(reveals, storeKind, Task(t).req.payload)
            /\ SetTask(t, [pc |-> "HM_Saved"])
            /\ UNCHANGED peerScores
    /\ UNCHANGED <<storeKind, ballotGate, voterGate, relay, batcher, now, connected, ballots, votes, results,
                   signatures, issued, sent, nullifiers, started, calls>>

\* onReceiveBallot, onReceiveResult: the attestation is valid; store.getBallot
\* or store.getResult
RX_Attested(t) ==
    /\ Task(t).pc = "RX_Attested"
    /\ IF ~witnessVerify(Task(t).req)
       THEN Penalized(t, "invalid_attestation", DefaultPenalty)
       ELSE /\ SetTask(t, [pc |-> "RX_Existing",
                           val |-> IF Task(t).req.type = "ballot"
                                   THEN ballots[Task(t).req.payload.id]
                                   ELSE results[Task(t).req.payload.ballotId]])
            /\ UNCHANGED peerScores
    /\ UNCHANGED <<storeKind, ballotGate, voterGate, relay, batcher, now, connected, ballots, votes, reveals,
                   results, signatures, issued, sent, nullifiers, started, calls>>

\* a ballot or a result that is already stored is a duplicate; else
\* store.saveBallot or store.saveResult
RX_Existing(t) ==
    /\ Task(t).pc = "RX_Existing"
    /\ IF Task(t).val # Null
       THEN Penalized(t, "duplicate", DuplicatePenalty) /\ UNCHANGED <<ballots, results>>
       ELSE /\ IF Task(t).req.type = "ballot"
               THEN /\ ballots' = saveBallot(ballots, storeKind, Task(t).req.payload)
                    /\ UNCHANGED results
               ELSE /\ results' = saveResult(results, Task(t).req.payload)
                    /\ UNCHANGED ballots
            /\ SetTask(t, [pc |-> "HM_Saved", val |-> Null])
            /\ UNCHANGED peerScores
    /\ UNCHANGED <<storeKind, ballotGate, voterGate, relay, batcher, now, connected, votes, reveals,
                   signatures, issued, sent, nullifiers, started, calls>>

----------------------------------------------------------------------------
(* TallyManager.computeRankedChoiceTally, a pass of its loop at a time *)

\* the loop starts with all the choices and a copy of the valid rankings
IRV_Begin(t, choices, ballotsIn) ==
    /\ Begin(t, "computeRankedChoiceTally", "IRV_Loop",
             [choices |-> choices, rankings |-> ballotsIn],
             [aux |-> irvStart(choices, ballotsIn)])
    /\ UNCHANGED <<storeKind, ballotGate, voterGate, relay, batcher, now, connected, ballots, votes, reveals,
                   results, signatures, issued, sent, nullifiers, peerScores, started>>

\* one pass of the loop, or, after the loop, the final tally and the rounds
IRV_Round(t) ==
    /\ Task(t).pc = "IRV_Loop"
    /\ LET st == Task(t).aux
           choices == Task(t).req.choices
       IN  IF irvRunning(st)
           THEN SetTask(t, [aux |-> irvRound(st, Len(choices))])
           ELSE Finish(t, "ok", [tally |-> finalTally(choices, st.rounds),
                                 rankedChoiceRounds |-> st.rounds])
    /\ UNCHANGED <<storeKind, ballotGate, voterGate, relay, batcher, now, connected, ballots, votes, reveals,
                   results, signatures, issued, sent, nullifiers, peerScores, started, calls>>

----------------------------------------------------------------------------
(* Crypto.generateVoteCommitment, and Crypto.verifyVoteCommitment of the
   commitment against vote data and a salt *)

VC_Commit(t, voteData, salt) ==
    /\ Begin(t, "generateVoteCommitment", "VC_Verify",
             [voteData |-> voteData, salt |-> salt],
             [aux |-> [commitment |-> generateVoteCommitment(voteData, salt)]])
    /\ UNCHANGED <<storeKind, ballotGate, voterGate, relay, batcher, now, connected, ballots, votes, reveals,
                   results, signatures, issued, sent, nullifiers, peerScores, started>>

VC_Verify(t, voteData, salt) ==
    /\ Task(t).pc = "VC_Verify"
    /\ Finish(t, "ok",
              [voteData |-> voteData, salt |-> salt,
               valid |-> verifyVoteCommitment(Task(t).aux.commitment, voteData, salt)])
    /\ UNCHANGED <<storeKind, ballotGate, voterGate, relay, batcher, now, connected, ballots, votes, reveals,
                   results, signatures, issued, sent, nullifiers, peerScores, started, calls>>

----------------------------------------------------------------------------
(* NullifierGossip.handleMessage of an envelope whose signature does not
   verify: the handler penalizes the named sender and returns in its first
   turn, with no wait; the scores followed stay within MaxScoreDrop of the
   initial score *)

RejectUnsigned(message) ==
    /\ started
    /\ ~message.signed
    /\ getPeerScore(peerScores, message.sender).score > InitialPeerScore - MaxScoreDrop
    /\ peerScores' = penalizePeer(peerScores, message.sender,
                                  "invalid_signature", DefaultPenalty)
    /\ UNCHANGED <<storeKind, ballotGate, voterGate, relay, batcher, now, connected, ballots, votes, reveals,
                   results, signatures, issued, sent, nullifiers, started, tasks, calls>>

----------------------------------------------------------------------------
(* NullifierGossip.prune, run by the timer that start() sets *)

\* the entries the first loop keeps: `now - entry.timestamp > maxAge` deletes,
\* with `now` from Date.now() and the timestamp as the entry holds it
keptByAge(entries, n) == {e \in entries : ~(n - e.timestamp > MaxNullifierAge)}

\* the ways to drop the entries of lowest timestamp down to maxNullifiers; the
\* sort is stable, so among equal timestamps the order of insertion decides
dropOldest(entries) ==
    IF Cardinality(entries) > MaxNullifiers
    THEN {kept \in SUBSET entries :
             /\ Cardinality(kept) = MaxNullifiers
             /\ \A g \in entries \ kept, k \in kept : g.timestamp <= k.timestamp}
    ELSE {entries}

prune ==
    /\ started
    /\ nullifiers' \in dropOldest(keptByAge(nullifiers, now))
    /\ UNCHANGED <<storeKind, ballotGate, voterGate, relay, batcher, now, connected, ballots, votes, reveals,
                   results, signatures, issued, sent, peerScores, started, tasks, calls>>

----------------------------------------------------------------------------
(* voprf: aggregate, computeLagrangeCoefficient. Scalars are the integers
   modulo the group order and a point is recorded by its multiple of the
   generator, so that adding points and multiplying a point by a scalar are
   the sum and the product modulo the order. *)

modMul(a, b) == (a * b) % CurveOrder

modSub(a, b) == (a - b) % CurveOrder

\* the inverse modulo the order; there is none of zero
invertible(a) == a % CurveOrder # 0

invertScalar(a) == CHOOSE x \in 1..(CurveOrder - 1) : (x * a) % CurveOrder = 1

multiply(point, scalar) == (point * scalar) % CurveOrder

\* the loop of computeLagrangeCoefficient over the indices from position k on:
\* `if (xj === xi) continue` passes over every index equal to xi
RECURSIVE lagrangeNumerator(_, _, _)
lagrangeNumerator(xi, allIndices, k) ==
    IF k > Len(allIndices) THEN 1
    ELSE IF allIndices[k] = xi THEN lagrangeNumerator(xi, allIndices, k + 1)
    ELSE modMul(allIndices[k], lagrangeNumerator(xi, allIndices, k + 1))

RECURSIVE lagrangeDenominator(_, _, _)
lagrangeDenominator(xi, allIndices, k) ==
    IF k > Len(allIndices) THEN 1
    ELSE IF allIndices[k] = xi THEN lagrangeDenominator(xi, allIndices, k + 1)
    ELSE modMul(modSub(allIndices[k], xi), lagrangeDenominator(xi, allIndices, k + 1))

computeLagrangeCoefficient(xi, allIndices) ==
    modMul(lagrangeNumerator(xi, allIndices, 1),
           invertScalar(lagrangeDenominator(xi, allIndices, 1)))

\* T = sum of coefficient times point, from position k on
RECURSIVE weightedSum(_, _, _)
weightedSum(partials, indices, k) ==
    IF k > Len(partials) THEN 0
    ELSE (multiply(partials[k].value, computeLagrangeCoefficient(indices[k], indices))
            + weightedSum(partials, indices, k + 1)) % CurveOrder

\* aggregate(partials): the point, or the error it throws
aggregate(partials) ==
    LET indices == [k \in DOMAIN partials |-> partials[k].index]
    IN  IF Len(partials) = 0 THEN [out |-> "NoPartials", val |-> Null]
        ELSE IF Len(partials) = 1 THEN [out |-> "ok", val |-> [point |-> partials[1].value]]
        ELSE IF \E k \in DOMAIN indices :
                   ~invertible(lagrangeDenominator(indices[k], indices, 1))
        THEN [out |-> "DuplicateShareIndex", val |-> Null]
        ELSE [out |-> "ok", val |-> [point |-> weightedSum(partials, indices, 1)]]

AG_Call(t, partials) ==
    /\ Begin(t, "aggregate", "done", [partials |-> partials], aggregate(partials))
    /\ UNCHANGED <<storeKind, ballotGate, voterGate, relay, batcher, now, connected, ballots, votes, reveals,
                   results, signatures, issued, sent, nullifiers, peerScores, started>>

----------------------------------------------------------------------------
(* VoteManager.requestEligibilityToken with batching enabled: RequestBatcher
   add and processBatch, VoteManager.processBatchedEligibility. A request in
   the queue or in the batch is recorded by the task that waits for it. *)

\* shuffleArray of n indexed requests: any order of the positions
shuffleArray(n) == Permutations(1..n)

\* the orders the processor can take the next batch in, if processBatch would
\* start one
shuffles(b) ==
    IF b.processing \/ b.queue = <<>> THEN {<<>>}
    ELSE shuffleArray(IF Len(b.queue) < MaxBatchSize THEN Len(b.queue) ELSE MaxBatchSize)

\* processBatch() up to `await this.processor(requests)`: nothing while a batch
\* is processed or the queue is empty; else the timer is cleared, the batch is
\* cut from the queue and the processor shuffles it
processBatch(b, order) ==
    IF b.processing \/ b.queue = <<>> THEN b
    ELSE [b EXCEPT !.processing = TRUE,
                   !.timer = "none",
                   !.batch = SubSeq(b.queue, 1, Len(order)),
                   !.queue = SubSeq(b.queue, Len(order) + 1, Len(b.queue)),
                   !.order = order,
                   !.pos = 1,
                   !.results = [i \in 1..Len(order) |-> Null]]

\* the result kept at the place the request was taken in
placeResultInOrder(resultsSoFar, pos, originalIndex, outcome) ==
    [resultsSoFar EXCEPT ![pos] = outcome]

\* results[req.originalIndex] = ..., for the request taken as the pos-th
placeResult(resultsSoFar, pos, originalIndex, outcome) ==
    [resultsSoFar EXCEPT ![originalIndex] = outcome]

\* requestEligibilityToken: eligibilityBatcher.add(request) queues the request;
\* a full queue is processed at once, else the timer is set if none is held
add(t, req) ==
    /\ Begin(t, "requestEligibilityToken", "BA_Queued", req, <<>>)
    /\ LET b == [batcher EXCEPT !.queue = Append(@, t)]
       IN  IF Len(b.queue) >= MaxBatchSize
           THEN \E order \in shuffles(b) : batcher' = processBatch(b, order)
           ELSE IF b.timer = "none"
           THEN batcher' = [b EXCEPT !.timer = "pending"]
           ELSE batcher' = b
    /\ UNCHANGED <<storeKind, ballotGate, voterGate, relay, now, connected, ballots, votes,
                   reveals, results, signatures, issued, sent, nullifiers, peerScores, started>>

\* the timer held in `timer` fires and calls processBatch()
BatchTimerFires ==
    /\ batcher.timer = "pending"
    /\ LET b == [batcher EXCEPT !.timer = "fired"]
       IN  \E order \in shuffles(b) : batcher' = processBatch(b, order)
    /\ UNCHANGED <<storeKind, ballotGate, voterGate, relay, now, connected, ballots, votes,
                   reveals, results, signatures, issued, sent, nullifiers, peerScores, started,
                   tasks, calls>>

\* a timer that was overwritten in `timer` while pending fires
LeakedTimerFires ==
    /\ batcher.leaked > 0
    /\ LET b == [batcher EXCEPT !.leaked = @ - 1]
       IN  \E order \in shuffles(b) : batcher' = processBatch(b, order)
    /\ UNCHANGED <<storeKind, ballotGate, voterGate, relay, now, connected, ballots, votes,
                   reveals, results, signatures, issued, sent, nullifiers, peerScores, started,
                   tasks, calls>>

\* processEligibilityRequest for a request of the batch: the token, or the
\* error that processBatchedEligibility turns into a result
eligibilityResult(req) ==
    LET ballot == ballots[req.ballotId]
    IN  IF ballot = Null THEN [eligible |-> FALSE, token |-> Null]
        ELSE IF isPetition(ballot) THEN [eligible |-> FALSE, token |-> Null]
        ELSE IF ~canVote(req.publicKey) THEN [eligible |-> FALSE, token |-> Null]
        ELSE IF ~checkEligibility(ballot, req.publicKey)
        THEN [eligible |-> FALSE, token |-> Null]
        ELSE [eligible |-> TRUE,
              token |-> [blindedToken |-> Cardinality(issued) + 1,
                         expiresAt |-> now + TokenTTL]]

\* one turn of the loop of processBatchedEligibility
PB_Process ==
    /\ batcher.processing
    /\ batcher.pos <= Len(batcher.order)
    /\ LET originalIndex == batcher.order[batcher.pos]
           result == eligibilityResult(Task(batcher.batch[originalIndex]).req)
       IN  /\ batcher' = [batcher EXCEPT
                             !.results = placeResult(@, batcher.pos, originalIndex, result),
                             !.pos = @ + 1]
           /\ issued' = IF result.eligible THEN issued \cup {result.token} ELSE issued
    /\ UNCHANGED <<storeKind, ballotGate, voterGate, relay, now, connected, ballots, votes,
                   reveals, results, signatures, sent, nullifiers, peerScores, started,
                   tasks, calls>>

\* the processor returns: each request of the batch is settled with the result
\* at its index, a result that is not eligible as INELIGIBLE; then `finally`
\* sets the timer again if the queue is not empty
PB_Settle ==
    /\ batcher.processing
    /\ batcher.pos > Len(batcher.order)
    /\ tasks' = [t \in TaskIds |->
                    IF \E i \in DOMAIN batcher.batch : batcher.batch[i] = t
                    THEN LET i == CHOOSE j \in DOMAIN batcher.batch : batcher.batch[j] = t
                             result == batcher.results[i]
                         IN  Upd(IdleTask,
                                 [op |-> Task(t).op, pc |-> "done", req |-> Task(t).req,
                                  out |-> IF result.eligible THEN "ok" ELSE "INELIGIBLE",
                                  val |-> result.token])
                    ELSE Task(t)]
    /\ batcher' = [batcher EXCEPT
                      !.processing = FALSE, !.batch = <<>>, !.order = <<>>, !.pos = 0,
                      !.results = <<>>,
                      !.leaked = IF batcher.queue # <<>> /\ batcher.timer = "pending"
                                 THEN @ + 1 ELSE @,
                      !.timer = IF batcher.queue # <<>> THEN "pending" ELSE @]
    /\ UNCHANGED <<storeKind, ballotGate, voterGate, relay, now, connected, ballots, votes,
                   reveals, results, signatures, issued, sent, nullifiers, peerScores, started,
                   calls>>

----------------------------------------------------------------------------
(* The node after construction *)

\* createPrestige: the SQLite store and the WebSocket relay adapter, not yet
\* connected; createTestPrestige: the in-memory store and the mock adapter,
\* which starts connected
InitAdapters ==
    \/ storeKind = "sqlite" /\ connected = FALSE
    \/ storeKind = "memory" /\ connected = TRUE

InitStore ==
    /\ now = StartTime
    /\ ballots = [id \in BallotIds |-> Null]
    /\ votes = {}
    /\ reveals = {}
    /\ results = [id \in BallotIds |-> Null]
    /\ signatures = {}
    /\ issued = {}
    /\ sent = {}
    /\ nullifiers = {}
    /\ peerScores = [p \in Peers |-> Null]
    /\ started = FALSE
    /\ relay = NoRelay
    /\ batcher = NoBatcher
    /\ tasks = [t \in TaskIds |-> IdleTask]
    /\ calls = 0

----------------------------------------------------------------------------
(* Vote admission: ballots are created, tokens requested and votes cast *)

VoteChoices == {TheChoices[1], TheChoices[2]}
VoteCommitments == {generateCommitment(c, <<"x">>) : c \in VoteChoices}
VoteNullifiers == {generateNullifier(s, <<"b1">>) : s \in VoterSecrets}
VoteInstants == {StartTime + DurMs, StartTime + DurMs + MsPerSecond}

CreateRequests ==
    {[publicKey |-> "pk1", choices |-> TheChoices, eligibility |-> OpenEligibility,
      voteType |-> VoteType("single")]}

CastVoteRequests ==
    {[ballotId |-> b, nullifier |-> nf, commitment |-> c, proof |-> k] :
        b \in BallotIds, nf \in VoteNullifiers, c \in VoteCommitments,
        k \in issued}
    \cup {[ballotId |-> b, nullifier |-> nf,
           commitment |-> generateCommitment(TheChoices[1], <<"x">>),
           proof |-> ForgedToken] :
              b \in BallotIds, nf \in {Malformed, generateNullifier(<<"s1">>, <<"b1">>)}}

InitVote ==
    /\ InitAdapters
    /\ ballotGate \in {"open", "petition"}
    /\ voterGate = FreebirdVoterGate
    /\ InitStore

VoteCall(t) ==
    \/ \E id \in BallotIds, req \in CreateRequests : createBallot(t, id, req)
    \/ \E b \in BallotIds : requestEligibilityToken(t, [ballotId |-> b, publicKey |-> "pk1"])
    \/ \E req \in CastVoteRequests : castVote(t, req)

VoteStep(t) ==
    \/ CB_Save(t)
    \/ CB_Broadcast(t)
    \/ RT_Check(t)
    \/ RT_Issue(t)
    \/ GB_Status(t)
    \/ GB_Assign(t)
    \/ CV_Check(t)
    \/ CV_HasVoted(t)
    \/ CV_Verified(t)
    \/ CV_Attested(t)
    \/ CV_Saved(t)
    \/ Return(t)

NextVote ==
    \/ Tick(VoteInstants)
    \/ Start
    \/ \E t \in TaskIds : calls < MaxRaceCalls /\ VoteCall(t)
    \/ \E t \in TaskIds : VoteStep(t)

SpecVote == InitVote /\ [][NextVote]_vars

\* One voter, pk1, makes every call, each after the one before has returned.
NextOneVoter ==
    \/ Tick(VoteInstants)
    \/ Start
    \/ VoteCall(1)
    \/ VoteStep(1)

SpecOneVoter == InitVote /\ [][NextOneVoter]_vars

----------------------------------------------------------------------------
(* Reveal admission: a ballot is created, a vote is cast, reveals are submitted *)

ApprovalAB == [type |-> "approval", choices |-> <<TheChoices[1], TheChoices[2]>>]
ApprovalBA == [type |-> "approval", choices |-> <<TheChoices[2], TheChoices[1]>>]

RevealInstants == {StartTime + DurMs - 1, StartTime + DurMs, StartTime + DurMs + WinMs}

RevealCreateRequests ==
    {[publicKey |-> "pk1", choices |-> TheChoices, eligibility |-> OpenEligibility,
      voteType |-> VoteType(type)] : type \in {"single", "approval"}}

RevealCastRequests ==
    {[ballotId |-> b, nullifier |-> generateNullifier(<<"s1">>, <<"b1">>),
      commitment |-> c, proof |-> k] :
        b \in BallotIds, k \in issued,
        c \in {generateCommitment(TheChoices[1], <<"x">>),
               generateVoteCommitment(ApprovalBA, <<"x">>)}}

RevealRequests ==
    {[ballotId |-> b, nullifier |-> generateNullifier(<<"s1">>, <<"b1">>),
      choice |-> c[1], salt |-> c[2], voteData |-> Null] :
        b \in BallotIds,
        c \in {<<TheChoices[1], <<"x">> >>, <<TheChoices[2], <<"x">> >>,
               <<TheChoices[1], <<"y">> >>}}
    \cup {[ballotId |-> b, nullifier |-> generateNullifier(<<"s2">>, <<"b1">>),
           choice |-> TheChoices[1], salt |-> <<"x">>, voteData |-> Null] : b \in BallotIds}
    \cup {[ballotId |-> b, nullifier |-> generateNullifier(<<"s1">>, <<"b1">>),
           choice |-> TheChoices[1], salt |-> <<"x">>, voteData |-> ApprovalAB] :
              b \in BallotIds}

AllIdle == \A t \in TaskIds : Task(t).op = "idle"

InitReveal ==
    /\ InitAdapters
    /\ ballotGate = "open"
    /\ voterGate = FreebirdVoterGate
    /\ InitStore

\* the ballot, the token and the vote are set up one call after the other
RevealSetup(t) ==
    /\ AllIdle
    /\ \/ \E id \in BallotIds, req \in RevealCreateRequests : createBallot(t, id, req)
       \/ \E b \in BallotIds : requestEligibilityToken(t, [ballotId |-> b, publicKey |-> "pk1"])
       \/ \E req \in RevealCastRequests : castVote(t, req)

RevealStep(t) ==
    \/ SR_Check(t)
    \/ SR_Votes(t)
    \/ SR_Existing(t)
    \/ SR_Saved(t)

NoSetupRunning == \A t \in TaskIds : Task(t).op \in {"idle", "submitReveal"}

NoBallots == \A b \in BallotIds : ballots[b] = Null

\* the node is started, if at all, before it is used; the clock is followed from
\* the creation of the ballot; reveals are submitted while no set-up call runs
NextReveal ==
    \/ ~NoBallots /\ Tick(RevealInstants)
    \/ NoBallots /\ AllIdle /\ Start
    \/ \E t \in TaskIds : RevealSetup(t)
    \/ \E t \in TaskIds, req \in RevealRequests : 
            NoSetupRunning /\ calls < MaxRevealCalls /\ submitReveal(t, req)
    \/ \E t \in TaskIds : VoteStep(t)
    \/ \E t \in TaskIds : RevealStep(t)

SpecReveal == InitReveal /\ [][NextReveal]_vars

----------------------------------------------------------------------------
(* The life of a ballot: petition signing and activation, status queries,
   results and live tallies, with one vote and one reveal *)

LifeInstants == {StartTime + DurMs, StartTime + DurMs + WinMs}

SignRequests ==
    {[ballotId |-> b, publicKey |-> pk, valid |-> TRUE] :
        b \in BallotIds, pk \in {"pk1", "pk2"}}
    \cup {[ballotId |-> b, publicKey |-> "pk1", valid |-> FALSE] : b \in BallotIds}

LifeCastRequests ==
    {[ballotId |-> b, nullifier |-> generateNullifier(<<"s1">>, <<"b1">>),
      commitment |-> generateCommitment(TheChoices[1], <<"x">>), proof |-> k] :
        b \in BallotIds, k \in issued}

LifeRevealRequests ==
    {[ballotId |-> b, nullifier |-> generateNullifier(<<"s1">>, <<"b1">>),
      choice |-> TheChoices[1], salt |-> <<"x">>, voteData |-> Null] : b \in BallotIds}

InitLife ==
    /\ InitAdapters
    /\ ballotGate \in {"open", "petition"}
    /\ voterGate = FreebirdVoterGate
    /\ InitStore

\* the ballot, the token, the vote and the reveal: one call after the other,
\* while nothing else runs
LifeSetup(t) ==
    /\ AllIdle
    /\ \/ \E id \in BallotIds, req \in CreateRequests : createBallot(t, id, req)
       \/ \E b \in BallotIds : requestEligibilityToken(t, [ballotId |-> b, publicKey |-> "pk1"])
       \/ \E req \in LifeCastRequests : castVote(t, req)
       \/ \E req \in LifeRevealRequests : submitReveal(t, req)

LifeOps ==
    {"signPetition", "getBallot", "listBallots", "getBallotStatus", "getResults",
     "getLiveTally"}

NoLifeSetupRunning == \A t \in TaskIds : Task(t).op \in {"idle"} \cup LifeOps

LifeCall(t) ==
    /\ NoLifeSetupRunning
    /\ ~NoBallots
    /\ IF votes = {} THEN calls < MaxLifeCalls ELSE AllIdle
    /\ \/ \E req \in SignRequests : signPetition(t, req)
       \/ \E b \in BallotIds : getBallot(t, b)
       \/ listBallots(t)
       \/ \E b \in BallotIds : getBallotStatus(t, b)
       \/ \E b \in BallotIds : getResults(t, b)
       \/ \E b \in BallotIds : getLiveTally(t, b)

LifeStep(t) ==
    \/ SP_Existing(t)
    \/ SP_AlreadySigned(t)
    \/ SP_Saved(t)
    \/ SP_Status(t)
    \/ SP_Return(t)
    \/ AB_Loaded(t)
    \/ AB_Deadlines(t)
    \/ GB_Return(t)
    \/ LB_Loop(t)
    \/ GS_Ballot(t)
    \/ GS_Count(t)
    \/ GS_Petition(t)
    \/ GR_Existing(t)
    \/ GR_Ballot(t)
    \/ CR_Existing(t)
    \/ CR_Ballot(t)
    \/ LT_Ballot(t)
    \/ TV_Votes(t)
    \/ TV_Reveals(t)
    \/ VA_Loop(t)
    \/ VR_Ballot(t)
    \/ VR_Votes(t)
    \/ CR_Attested(t)
    \/ CR_Saved(t)

NextLife ==
    \/ ~NoBallots /\ Tick(LifeInstants)
    \/ NoBallots /\ AllIdle /\ Start
    \/ \E t \in TaskIds : LifeSetup(t)
    \/ \E t \in TaskIds : LifeCall(t)
    \/ \E t \in TaskIds : VoteStep(t)
    \/ \E t \in TaskIds : RevealStep(t)
    \/ \E t \in TaskIds : LifeStep(t)

SpecLife == InitLife /\ [][NextLife]_vars

----------------------------------------------------------------------------
(* Votes and reveals from two sides: cast and submitted here, and received
   from a peer *)

GossipInstants == {StartTime + DurMs}

PeerVotes ==
    {[ballotId |-> b, nullifier |-> generateNullifier(<<"s1">>, <<"b1">>),
      commitment |-> generateCommitment(c, <<"x">>), proof |-> k,
      attestation |-> attest(<<"v">>, StartTime)] :
        b \in BallotIds, c \in VoteChoices, k \in issued}
    \cup {[ballotId |-> b, nullifier |-> generateNullifier(<<"s1">>, <<"b1">>),
           commitment |-> generateCommitment(TheChoices[1], <<"x">>),
           proof |-> ForgedToken, attestation |-> attest(<<"v">>, StartTime)] :
              b \in BallotIds}

PeerReveals ==
    {[ballotId |-> b, nullifier |-> generateNullifier(<<"s1">>, <<"b1">>),
      choice |-> c, salt |-> <<"x">>, voteData |-> Null] :
        b \in BallotIds, c \in VoteChoices}

PeerBallots ==
    {[id |-> b, choices |-> TheChoices, created |-> StartTime,
      deadline |-> StartTime + DurMs, revealDeadline |-> StartTime + DurMs + WinMs,
      eligibility |-> OpenEligibility, creatorPublicKey |-> "pk2",
      status |-> "voting", voteType |-> VoteType("single"),
      attestation |-> attest(b, StartTime)] : b \in BallotIds}

PeerResults ==
    {[ballotId |-> b, tally |-> [c \in VoteChoices |-> 0], totalVotes |-> 0,
      totalReveals |-> 0, validReveals |-> 0,
      attestation |-> attest(<<"r">>, StartTime + DurMs + WinMs),
      finalized |-> StartTime + DurMs + WinMs, voteType |-> "single"] :
        b \in BallotIds}

Envelope(type, payload, signed, attested) ==
    [type |-> type, payload |-> payload, sender |-> "peerA", signed |-> signed,
     attested |-> attested]

GossipMessages ==
    {Envelope("vote", v, TRUE, TRUE) : v \in {w \in PeerVotes : w.proof # ForgedToken}}
    \cup {Envelope("vote", v, FALSE, TRUE) :
             v \in {w \in PeerVotes : w.proof = ForgedToken}}
    \cup {Envelope("reveal", r, TRUE, TRUE) : r \in PeerReveals}
    \cup {Envelope("ballot", b, TRUE, a) : b \in PeerBallots, a \in BOOLEAN}
    \cup {Envelope("result", r, TRUE, TRUE) : r \in PeerResults}

InitGossip ==
    /\ InitAdapters
    /\ ballotGate = "open"
    /\ voterGate = FreebirdVoterGate
    /\ InitStore

\* the ballot and the token: one call after the other, while nothing else runs
GossipSetup(t) ==
    /\ AllIdle
    /\ \/ \E id \in BallotIds, req \in CreateRequests : createBallot(t, id, req)
       \/ \E b \in BallotIds :
             issued = {} /\ requestEligibilityToken(t, [ballotId |-> b, publicKey |-> "pk1"])

NoGossipSetupRunning ==
    \A t \in TaskIds : Task(t).op \in {"idle", "castVote", "submitReveal", "handleMessage"}

GossipCall(t) ==
    /\ NoGossipSetupRunning
    /\ calls < MaxGossipCalls
    /\ \/ \E req \in LifeCastRequests : castVote(t, req)
       \/ \E req \in LifeRevealRequests : submitReveal(t, req)
       \/ \E message \in GossipMessages : handleMessage(t, message)

GossipStep(t) ==
    \/ RV_Ballot(t)
    \/ RV_Verified(t)
    \/ RR_Ballot(t)
    \/ RR_Votes(t)
    \/ RR_Existing(t)
    \/ RX_Attested(t)
    \/ RX_Existing(t)
    \/ HM_Saved(t)

NextGossip ==
    \/ ~NoBallots /\ Tick(GossipInstants)
    \/ NoBallots /\ AllIdle /\ Start
    \/ \E t \in TaskIds : GossipSetup(t)
    \/ \E t \in TaskIds : GossipCall(t)
    \/ \E t \in TaskIds : VoteStep(t)
    \/ \E t \in TaskIds : RevealStep(t)
    \/ \E t \in TaskIds : GossipStep(t)

SpecGossip == InitGossip /\ [][NextGossip]_vars

----------------------------------------------------------------------------
(* Vote data at reveal: ballots of the four vote types, one vote, and reveals
   whose commitment is the one that was cast; one call after the other *)

MaxDataCalls == 5

RankedOne == [VoteType("ranked") EXCEPT !.minRankings = {1}, !.maxRankings = {1}]
ScoreUpToTwo == [VoteType("score") EXCEPT !.minScore = {0}, !.maxScore = {2}]

DataCreateRequests ==
    {[publicKey |-> "pk1", choices |-> TheChoices, eligibility |-> OpenEligibility,
      voteType |-> vt] :
        vt \in {VoteType("single"), VoteType("approval"), RankedOne, ScoreUpToTwo}}

Outsider == <<"Z">>

\* what a voter reveals: the choice field and the structured data, if any
DataVotes ==
    {[choice |-> c, voteData |-> Null] : c \in {TheChoices[1], Outsider}}
    \cup {[choice |-> Outsider, voteData |-> [type |-> "single", choice |-> TheChoices[1]]]}
    \cup {[choice |-> TheChoices[1], voteData |-> [type |-> "approval", choices |-> cs]] :
            cs \in {<<>>, <<TheChoices[1], TheChoices[2]>>,
                    <<TheChoices[1], TheChoices[1]>>, <<Outsider>>}}
    \cup {[choice |-> TheChoices[1], voteData |-> [type |-> "ranked", rankings |-> rs]] :
            rs \in {<<>>, <<TheChoices[1]>>, <<TheChoices[1], TheChoices[2]>>, <<Outsider>>}}
    \cup {[choice |-> TheChoices[1], voteData |-> [type |-> "score", scores |-> ss]] :
            ss \in {<<>>, << <<TheChoices[1], 1>> >>, << <<TheChoices[1], 3>> >>,
                    << <<TheChoices[1], -1>> >>, << <<Outsider, 1>> >>}}

DataSalt == <<"x">>

\* the commitments a voter can have cast for what they reveal
DataCommitments(d) ==
    {generateCommitment(d.choice, DataSalt)}
    \cup (IF d.voteData = Null THEN {} ELSE {generateVoteCommitment(d.voteData, DataSalt)})

DataCastRequests ==
    {[ballotId |-> b, nullifier |-> generateNullifier(<<"s1">>, <<"b1">>),
      commitment |-> c, proof |-> k] :
        b \in BallotIds, k \in issued, c \in UNION {DataCommitments(d) : d \in DataVotes}}

DataRevealRequests ==
    {[ballotId |-> b, nullifier |-> generateNullifier(<<"s1">>, <<"b1">>),
      choice |-> d.choice, salt |-> DataSalt, voteData |-> d.voteData] :
        b \in BallotIds,
        d \in {e \in DataVotes : \E v \in votes : v.commitment \in DataCommitments(e)}}

DataCall(t) ==
    /\ AllIdle
    /\ calls < MaxDataCalls
    /\ \/ \E id \in BallotIds, req \in DataCreateRequests : createBallot(t, id, req)
       \/ /\ issued = {}
          /\ \E b \in BallotIds :
                requestEligibilityToken(t, [ballotId |-> b, publicKey |-> "pk1"])
       \/ \E req \in DataCastRequests : castVote(t, req)
       \/ \E req \in DataRevealRequests : submitReveal(t, req)
       \/ \E b \in BallotIds :
             /\ ballots[b] # Null
             /\ now >= ballots[b].revealDeadline
             /\ getResults(t, b)

\* the steps of getResults and of the computeResult it calls
DataTallyStep(t) ==
    \/ GR_Existing(t)
    \/ GR_Ballot(t)
    \/ CR_Existing(t)
    \/ CR_Ballot(t)
    \/ TV_Votes(t)
    \/ TV_Reveals(t)
    \/ VA_Loop(t)
    \/ VR_Ballot(t)
    \/ VR_Votes(t)
    \/ CR_Attested(t)
    \/ CR_Saved(t)

NextData ==
    \/ ~NoBallots /\ Tick(RevealInstants)
    \/ NoBallots /\ AllIdle /\ Start
    \/ \E t \in TaskIds : DataCall(t)
    \/ \E t \in TaskIds : VoteStep(t)
    \/ \E t \in TaskIds : RevealStep(t)
    \/ \E t \in TaskIds : DataTallyStep(t)

SpecData == InitReveal /\ [][NextData]_vars

----------------------------------------------------------------------------
(* Petition signing, one call after the other: a ballot is created behind the
   petition gate and keys sign it, some of them again *)

MaxPetitionCalls == 5

PetitionSignRequests ==
    {[ballotId |-> b, publicKey |-> pk, valid |-> TRUE] : b \in BallotIds, pk \in PublicKeys}

InitPetition ==
    /\ InitAdapters
    /\ ballotGate = "petition"
    /\ voterGate = FreebirdVoterGate
    /\ InitStore

PetitionCall(t) ==
    /\ AllIdle
    /\ calls < MaxPetitionCalls
    /\ \/ \E id \in BallotIds, req \in CreateRequests : createBallot(t, id, req)
       \/ ~NoBallots /\ \E req \in PetitionSignRequests : signPetition(t, req)

PetitionStep(t) ==
    \/ CB_Save(t)
    \/ CB_Broadcast(t)
    \/ SP_Existing(t)
    \/ SP_AlreadySigned(t)
    \/ SP_Saved(t)
    \/ SP_Status(t)
    \/ SP_Return(t)
    \/ AB_Loaded(t)
    \/ AB_Deadlines(t)
    \/ Return(t)

NextPetition ==
    \/ ~NoBallots /\ Tick(LifeInstants)
    \/ NoBallots /\ AllIdle /\ Start
    \/ \E t \in TaskIds : PetitionCall(t)
    \/ \E t \in TaskIds : PetitionStep(t)

SpecPetition == InitPetition /\ [][NextPetition]_vars

----------------------------------------------------------------------------
(* Instant-runoff tallies of ballots of two or three choices, in every order,
   with up to MaxIrvBallots valid rankings *)

MaxIrvBallots == 4
MaxIrvRankings == 2
MaxIrvCalls == 1

IrvNames == {<<"A">>, <<"B">>, <<"C">>}

\* sequences without repetition, of lengths lo to hi, over the names in S
Arrangements(S, lo, hi) ==
    UNION {{s \in [1..k -> S] : NoDuplicates(s)} : k \in lo..hi}

IrvChoices == Arrangements(IrvNames, 2, 3)

\* the rankings validateVoteData admits for a ballot of these choices
IrvRankings(choices) == Arrangements(SeqRange(choices), 1, MaxIrvRankings)

IrvBallots(choices) == UNION {[1..k -> IrvRankings(choices)] : k \in 0..MaxIrvBallots}

IrvCall(t) ==
    /\ calls < MaxIrvCalls
    /\ \E choices \in IrvChoices :
           \E ballotsIn \in IrvBallots(choices) : IRV_Begin(t, choices, ballotsIn)

NextIrv ==
    \/ \E t \in TaskIds : IrvCall(t)
    \/ \E t \in TaskIds : IRV_Round(t)
    \/ \E t \in TaskIds : Return(t)

SpecIrv == InitReveal /\ [][NextIrv]_vars

\* the same tallies with up to MaxFairBallots rankings, where the loop, which
\* is synchronous code, always goes on once it is entered
MaxFairBallots == 2

FairIrvCall(t) ==
    /\ calls < MaxIrvCalls
    /\ \E choices \in IrvChoices :
           \E ballotsIn \in {b \in IrvBallots(choices) : Len(b) <= MaxFairBallots} :
               IRV_Begin(t, choices, ballotsIn)

NextIrvFair ==
    \/ \E t \in TaskIds : FairIrvCall(t)
    \/ \E t \in TaskIds : IRV_Round(t)
    \/ \E t \in TaskIds : Return(t)

SpecIrvFair ==
    InitReveal /\ [][NextIrvFair]_vars /\ WF_vars(\E t \in TaskIds : IRV_Round(t))

----------------------------------------------------------------------------
(* Results: a ballot with one vote; then its reveal, requests for the result
   and a result sent by a peer, in any interleaving *)

MaxResultCalls == 6

ResultMessages == {Envelope("result", r, TRUE, TRUE) : r \in PeerResults}

ResultSetup(t) ==
    /\ AllIdle
    /\ \/ \E id \in BallotIds, req \in CreateRequests : createBallot(t, id, req)
       \/ /\ issued = {}
          /\ \E b \in BallotIds :
                requestEligibilityToken(t, [ballotId |-> b, publicKey |-> "pk1"])
       \/ votes = {} /\ \E req \in LifeCastRequests : castVote(t, req)

ResultOps == {"submitReveal", "getResults", "handleMessage"}

ResultCall(t) ==
    /\ \A u \in TaskIds : Task(u).op \in {"idle"} \cup ResultOps
    /\ votes # {}
    /\ calls < MaxResultCalls
    /\ \/ reveals = {} /\ \E req \in LifeRevealRequests : submitReveal(t, req)
       \/ \E b \in BallotIds : getResults(t, b)
       \/ \E message \in ResultMessages : handleMessage(t, message)

ResultGossipStep(t) ==
    \/ RX_Attested(t)
    \/ RX_Existing(t)
    \/ HM_Saved(t)

NextResult ==
    \/ votes # {} /\ Tick(LifeInstants)
    \/ NoBallots /\ AllIdle /\ Start
    \/ \E t \in TaskIds : ResultSetup(t)
    \/ \E t \in TaskIds : ResultCall(t)
    \/ \E t \in TaskIds : VoteStep(t)
    \/ \E t \in TaskIds : RevealStep(t)
    \/ \E t \in TaskIds : DataTallyStep(t)
    \/ \E t \in TaskIds : ResultGossipStep(t)

SpecResult == InitReveal /\ [][NextResult]_vars

----------------------------------------------------------------------------
(* Token requests behind every voter gate: ballots of each eligibility type
   are created behind the open or the petition gate, keys sign them and keys
   ask for tokens, also while another call is in flight *)

MaxTokenCalls == 5

TokenVoterGates ==
    {OpenVoterGate, FreebirdVoterGate, AllowlistVoterGate({"pk1"}),
     AllowlistVoterGate({"pk1", "pk2"})}

TokenEligibilities ==
    {OpenEligibility,
     [type |-> "invite-list", list |-> {"pk2"}],
     [type |-> "invite-list", list |-> {}],
     [type |-> "allowlist", list |-> {"pk1", "pk3"}]}

TokenCreateRequests ==
    {[publicKey |-> "pk1", choices |-> TheChoices, eligibility |-> e,
      voteType |-> VoteType("single")] : e \in TokenEligibilities}

TokenRequests == {[ballotId |-> b, publicKey |-> pk] : b \in BallotIds, pk \in PublicKeys}

InitToken ==
    /\ InitAdapters
    /\ ballotGate \in {"open", "petition"}
    /\ voterGate \in TokenVoterGates
    /\ InitStore

TokenCall(t) ==
    /\ calls < MaxTokenCalls
    /\ \/ AllIdle /\ \E id \in BallotIds, req \in TokenCreateRequests : createBallot(t, id, req)
       \/ AllIdle /\ ~NoBallots /\ \E req \in PetitionSignRequests : signPetition(t, req)
       \/ \E req \in TokenRequests : requestEligibilityToken(t, req)

TokenStep(t) ==
    \/ CB_Save(t)
    \/ CB_Broadcast(t)
    \/ SP_Existing(t)
    \/ SP_AlreadySigned(t)
    \/ SP_Saved(t)
    \/ SP_Status(t)
    \/ SP_Return(t)
    \/ AB_Loaded(t)
    \/ AB_Deadlines(t)
    \/ GB_Status(t)
    \/ RT_Check(t)
    \/ RT_Issue(t)
    \/ Return(t)

NextToken ==
    \/ \E t \in TaskIds : TokenCall(t)
    \/ \E t \in TaskIds : TokenStep(t)

SpecToken == InitToken /\ [][NextToken]_vars

----------------------------------------------------------------------------
(* Commitments to vote data of the four types, over names that hold the
   separators the serialization writes, each verified against vote data and a
   salt *)

MaxCommitCalls == 1

A == <<"A">>
B == <<"B">>

CommitVoteData ==
    {[type |-> "single", choice |-> c] :
        c \in {A, B, <<"A", ",", "B">>, <<"approval:", "A">>}}
    \cup {[type |-> "approval", choices |-> cs] : cs \in {<<A>>, <<A, B>>, <<B, A>>}}
    \cup {[type |-> "ranked", rankings |-> rs] :
            rs \in {<<A, B>>, <<B, A>>, << <<"A", ",", "B">> >>}}
    \cup {[type |-> "score", scores |-> ss] :
            ss \in {<< <<A, 1>> >>, << <<A, 1>>, <<B, 2>> >>, << <<A, 2>>, <<B, 1>> >>}}

CommitSalts == {<<"x">>, <<"y">>}

CommitCall(t) ==
    /\ calls < MaxCommitCalls
    /\ \E voteData \in CommitVoteData, salt \in CommitSalts : VC_Commit(t, voteData, salt)

NextCommit ==
    \/ \E t \in TaskIds : CommitCall(t)
    \/ \E t \in TaskIds, voteData \in CommitVoteData, salt \in CommitSalts :
           VC_Verify(t, voteData, salt)
    \/ \E t \in TaskIds : Return(t)

SpecCommit == InitReveal /\ [][NextCommit]_vars

----------------------------------------------------------------------------
(* Ballots entering the store: requests of every shape validateBallotRequest
   tells apart, with and without durations, behind the open or the petition
   gate, petitions signed into activation, and ballots received from peers *)

MaxBallotCalls == 4

BallotChoices ==
    {TheChoices,
     << <<"A">> >>,
     << <<" ", "A">>, <<"B">> >>,
     << <<"A">>, <<"A", " ">> >>,
     << <<"A">>, <<" ">> >>,
     << <<"A">>, <<"B">>, <<"C">>, <<"D">> >>}

BallotRequests ==
    LET base == {[publicKey |-> "pk1", choices |-> cs, eligibility |-> OpenEligibility,
                  voteType |-> VoteType("single")] : cs \in BallotChoices}
    IN  base
        \cup {[publicKey |-> r.publicKey, choices |-> r.choices,
               eligibility |-> r.eligibility, voteType |-> r.voteType,
               durationMinutes |-> d] : r \in base, d \in {0, 2}}
        \cup {[publicKey |-> r.publicKey, choices |-> r.choices,
               eligibility |-> r.eligibility, voteType |-> r.voteType,
               revealWindowMinutes |-> w] : r \in base, w \in {0, -1, -3}}

\* ballots a peer sends: one as createBallot builds it, one of a single choice
\* and one whose reveal deadline precedes its deadline
BallotsOfPeers ==
    PeerBallots
    \cup {[p EXCEPT !.choices = << <<"A">> >>] : p \in PeerBallots}
    \cup {[p EXCEPT !.revealDeadline = StartTime] : p \in PeerBallots}

BallotMessages == {Envelope("ballot", b, TRUE, a) : b \in BallotsOfPeers, a \in BOOLEAN}

InitBallot ==
    /\ InitAdapters
    /\ ballotGate \in {"open", "petition"}
    /\ voterGate = FreebirdVoterGate
    /\ InitStore

BallotCall(t) ==
    /\ AllIdle
    /\ calls < MaxBallotCalls
    /\ \/ \E id \in BallotIds, req \in BallotRequests : createBallot(t, id, req)
       \/ ~NoBallots /\ \E req \in PetitionSignRequests : signPetition(t, req)
       \/ \E message \in BallotMessages : handleMessage(t, message)

BallotStep(t) ==
    \/ CB_Save(t)
    \/ CB_Broadcast(t)
    \/ SP_Existing(t)
    \/ SP_AlreadySigned(t)
    \/ SP_Saved(t)
    \/ SP_Status(t)
    \/ SP_Return(t)
    \/ AB_Loaded(t)
    \/ AB_Deadlines(t)
    \/ RX_Attested(t)
    \/ RX_Existing(t)
    \/ HM_Saved(t)
    \/ Return(t)

NextBallot ==
    \/ ~NoBallots /\ Tick(LifeInstants)
    \/ NoBallots /\ AllIdle /\ Start
    \/ \E t \in TaskIds : BallotCall(t)
    \/ \E t \in TaskIds : BallotStep(t)

SpecBallot == InitBallot /\ [][NextBallot]_vars

----------------------------------------------------------------------------
(* Reveals against one commitment: a single-choice ballot whose choices are
   "A" and "AB", a vote committed to "AB" under the salt "x", and reveals of
   either choice under the salts "x" and "Bx" *)

MaxBindingCalls == 5

BindingChoices == << <<"A">>, <<"A", "B">> >>

BindingCreateRequests ==
    {[publicKey |-> "pk1", choices |-> BindingChoices, eligibility |-> OpenEligibility,
      voteType |-> VoteType("single")]}

BindingCastRequests ==
    {[ballotId |-> b, nullifier |-> generateNullifier(<<"s1">>, <<"b1">>),
      commitment |-> generateCommitment(BindingChoices[2], <<"x">>), proof |-> k] :
        b \in BallotIds, k \in issued}

BindingRevealRequests ==
    {[ballotId |-> b, nullifier |-> generateNullifier(<<"s1">>, <<"b1">>),
      choice |-> c, salt |-> s, voteData |-> Null] :
        b \in BallotIds, c \in SeqRange(BindingChoices), s \in {<<"x">>, <<"B", "x">>}}

BindingSetup(t) ==
    /\ AllIdle
    /\ \/ \E id \in BallotIds, req \in BindingCreateRequests : createBallot(t, id, req)
       \/ /\ issued = {}
          /\ \E b \in BallotIds :
                requestEligibilityToken(t, [ballotId |-> b, publicKey |-> "pk1"])
       \/ votes = {} /\ \E req \in BindingCastRequests : castVote(t, req)

BindingCall(t) ==
    /\ NoSetupRunning
    /\ votes # {}
    /\ calls < MaxBindingCalls
    /\ \E req \in BindingRevealRequests : submitReveal(t, req)

NextBinding ==
    \/ ~NoBallots /\ Tick(RevealInstants)
    \/ NoBallots /\ AllIdle /\ Start
    \/ \E t \in TaskIds : BindingSetup(t)
    \/ \E t \in TaskIds : BindingCall(t)
    \/ \E t \in TaskIds : VoteStep(t)
    \/ \E t \in TaskIds : RevealStep(t)

SpecBinding == InitReveal /\ [][NextBinding]_vars

----------------------------------------------------------------------------
(* Votes whose nullifier is one hash in two hex spellings, lower case and
   upper case; one call after the other *)

MaxSpellingCalls == 5

\* String.prototype.toUpperCase over the digits of the hashes of the model
UpperDigit(c) ==
    CASE c = "s1" -> "S1"
      [] c = "s2" -> "S2"
      [] c = "b1" -> "B1"
      [] OTHER -> c

toUpperCase(h) == [i \in DOMAIN h |-> UpperDigit(h[i])]

\* the bytes a hex string spells
LowerDigit(c) ==
    CASE c = "S1" -> "s1"
      [] c = "S2" -> "s2"
      [] c = "B1" -> "b1"
      [] OTHER -> c

hexToBytes(h) == [i \in DOMAIN h |-> LowerDigit(h[i])]

SpellingNullifiers ==
    {generateNullifier(<<"s1">>, <<"b1">>),
     toUpperCase(generateNullifier(<<"s1">>, <<"b1">>))}

SpellingCastRequests ==
    {[ballotId |-> b, nullifier |-> nf,
      commitment |-> generateCommitment(TheChoices[1], <<"x">>), proof |-> k] :
        b \in BallotIds, nf \in SpellingNullifiers, k \in issued}

SpellingCall(t) ==
    /\ AllIdle
    /\ calls < MaxSpellingCalls
    /\ \/ \E id \in BallotIds, req \in CreateRequests : createBallot(t, id, req)
       \/ /\ issued = {}
          /\ \E b \in BallotIds :
                requestEligibilityToken(t, [ballotId |-> b, publicKey |-> "pk1"])
       \/ \E req \in SpellingCastRequests : castVote(t, req)

NextSpelling ==
    \/ ~NoBallots /\ Tick(VoteInstants)
    \/ NoBallots /\ AllIdle /\ Start
    \/ \E t \in TaskIds : SpellingCall(t)
    \/ \E t \in TaskIds : VoteStep(t)

SpecSpelling == InitReveal /\ [][NextSpelling]_vars

----------------------------------------------------------------------------
(* A peer's score under envelopes in its name: unsigned ones, which anyone can
   send, and signed votes and ballots, handled while others are in flight *)

MaxBanCalls == 5

UnsignedMessages ==
    {Envelope("vote", v, FALSE, TRUE) : v \in {w \in PeerVotes : w.proof = ForgedToken}}

SignedMessages ==
    {Envelope("vote", v, TRUE, TRUE) : v \in {w \in PeerVotes : w.proof # ForgedToken}}
    \cup {Envelope("ballot", b, TRUE, TRUE) : b \in PeerBallots}

BanCall(t) ==
    /\ NoGossipSetupRunning
    /\ issued # {}
    /\ calls < MaxBanCalls
    /\ \E message \in SignedMessages : handleMessage(t, message)

BanStep(t) ==
    \/ CB_Save(t)
    \/ CB_Broadcast(t)
    \/ GB_Status(t)
    \/ RT_Check(t)
    \/ RT_Issue(t)
    \/ RV_Ballot(t)
    \/ RV_Verified(t)
    \/ RX_Attested(t)
    \/ RX_Existing(t)
    \/ HM_Saved(t)
    \/ Return(t)

NextBan ==
    \/ NoBallots /\ AllIdle /\ Start
    \/ \E t \in TaskIds : GossipSetup(t)
    \/ \E t \in TaskIds : BanCall(t)
    \/ \E t \in TaskIds : BanStep(t)
    \/ issued # {} /\ \E message \in UnsignedMessages : RejectUnsigned(message)

SpecBan == InitGossip /\ [][NextBan]_vars

----------------------------------------------------------------------------
(* The same reveal by two ways: submitted on this node, or received from a
   peer that took it; ballots of the four vote types, one call after the
   other *)

MaxRelayCalls == 5

\* the reveal a peer passes on is the one that was submitted to it
RelayMessages == {Envelope("reveal", r, TRUE, TRUE) : r \in DataRevealRequests}

RelayCall(t) ==
    /\ AllIdle
    /\ calls < MaxRelayCalls
    /\ \/ \E id \in BallotIds, req \in DataCreateRequests : createBallot(t, id, req)
       \/ /\ issued = {}
          /\ \E b \in BallotIds :
                requestEligibilityToken(t, [ballotId |-> b, publicKey |-> "pk1"])
       \/ \E req \in DataCastRequests : castVote(t, req)
       \/ \E req \in DataRevealRequests : submitReveal(t, req)
       \/ \E message \in RelayMessages : handleMessage(t, message)

\* the steps of onReceiveReveal
RelayStep(t) ==
    \/ RR_Ballot(t)
    \/ RR_Votes(t)
    \/ RR_Existing(t)
    \/ HM_Saved(t)

NextRelay ==
    \/ ~NoBallots /\ Tick(RevealInstants)
    \/ NoBallots /\ AllIdle /\ Start
    \/ \E t \in TaskIds : RelayCall(t)
    \/ \E t \in TaskIds : VoteStep(t)
    \/ \E t \in TaskIds : RevealStep(t)
    \/ \E t \in TaskIds : RelayStep(t)

SpecRelay == InitReveal /\ [][NextRelay]_vars

----------------------------------------------------------------------------
(* The nullifier cache under the pruner: votes of two voters received from a
   peer, attested at the start or twenty seconds later, and pruner runs in
   between *)

MaxPruneCalls == 4

PruneInstants == {StartTime + 20 * MsPerSecond, StartTime + DurMs}

PruneVotes ==
    {[ballotId |-> b, nullifier |-> generateNullifier(s, <<"b1">>),
      commitment |-> generateCommitment(TheChoices[1], <<"x">>), proof |-> k,
      attestation |-> attest(<<"v">>, n)] :
        b \in BallotIds, s \in VoterSecrets, k \in issued,
        n \in {i \in {StartTime} \cup PruneInstants : i <= now}}

PruneCall(t) ==
    /\ NoGossipSetupRunning
    /\ issued # {}
    /\ calls < MaxPruneCalls
    /\ \E v \in PruneVotes : handleMessage(t, Envelope("vote", v, TRUE, TRUE))

PruneStep(t) ==
    \/ CB_Save(t)
    \/ CB_Broadcast(t)
    \/ GB_Status(t)
    \/ RT_Check(t)
    \/ RT_Issue(t)
    \/ RV_Ballot(t)
    \/ RV_Verified(t)
    \/ HM_Saved(t)
    \/ Return(t)

NextPrune ==
    \/ ~NoBallots /\ Tick(PruneInstants)
    \/ NoBallots /\ AllIdle /\ Start
    \/ \E t \in TaskIds : GossipSetup(t)
    \/ \E t \in TaskIds : PruneCall(t)
    \/ \E t \in TaskIds : PruneStep(t)
    \/ prune

SpecPrune == InitGossip /\ [][NextPrune]_vars

----------------------------------------------------------------------------
(* Threshold reconstruction: up to three partial evaluations with share
   indices 1 to 3 *)

ShareIndices == 1..3

PartialEvaluations == {[index |-> i, value |-> v] : i \in ShareIndices, v \in {1, 2}}

PartialLists == UNION {[1..n -> PartialEvaluations] : n \in 0..MaxPartials}

NextAggregate ==
    \/ Start
    \/ \E t \in TaskIds, partials \in PartialLists :
          calls < MaxAggregateCalls /\ AG_Call(t, partials)

SpecAggregate == InitReveal /\ [][NextAggregate]_vars

----------------------------------------------------------------------------
(* The relay adapter over start and stop: the connection drops and comes
   back, gossip is stopped, and a ballot is created and sent in between *)

StopCall(t) ==
    /\ AllIdle
    /\ calls < MaxStopCalls
    /\ \E id \in BallotIds, req \in CreateRequests : createBallot(t, id, req)

StopStep(t) ==
    \/ CB_Save(t)
    \/ CB_Broadcast(t)
    \/ Return(t)

NextStop ==
    \/ Start
    \/ Disconnect
    \/ relay.closing < MaxClosing /\ stop
    \/ CloseDelivered
    \/ \E opens \in BOOLEAN : ReconnectTimerFires(opens)
    \/ \E t \in TaskIds : StopCall(t)
    \/ \E t \in TaskIds : StopStep(t)

SpecStop == InitGossip /\ [][NextStop]_vars

----------------------------------------------------------------------------
(* Batched token requests: an instance that admits pk1 only, one ballot, and
   requests of pk1 and pk2 that come while others are queued or processed.
   Timers fire and the processor goes on. *)

BatchRequests == {[ballotId |-> b, publicKey |-> pk] : b \in BallotIds, pk \in {"pk1", "pk2"}}

InitBatch ==
    /\ InitAdapters
    /\ ballotGate = "open"
    /\ voterGate = AllowlistVoterGate({"pk1"})
    /\ InitStore

BatchCall(t) ==
    /\ calls < MaxBatchCalls
    /\ \/ /\ NoBallots
          /\ AllIdle
          /\ \E id \in BallotIds, req \in CreateRequests : createBallot(t, id, req)
       \/ /\ ~NoBallots
          /\ \A u \in TaskIds : Task(u).op \in {"idle", "requestEligibilityToken"}
          /\ \E req \in BatchRequests : add(t, req)

BatchStep(t) ==
    \/ CB_Save(t)
    \/ CB_Broadcast(t)
    \/ Return(t)

NextBatch ==
    \/ \E t \in TaskIds : BatchCall(t)
    \/ \E t \in TaskIds : BatchStep(t)
    \/ BatchTimerFires
    \/ LeakedTimerFires
    \/ PB_Process
    \/ PB_Settle

SpecBatch ==
    /\ InitBatch
    /\ [][NextBatch]_vars
    /\ WF_vars(BatchTimerFires)
    /\ WF_vars(PB_Process)
    /\ WF_vars(PB_Settle)

Done(t, op) == Task(t).op = op /\ Task(t).pc = "done"

StoredVote(ballotId, nullifier) ==
    \E v \in votes : v.ballotId = ballotId /\ v.nullifier = nullifier

\* C2: of two cast_vote calls in flight together with the same ballot and
\* nullifier, exactly one returns the vote; they never both return a vote.
C2_ExactlyOneVoteReturned ==
    \A t, u \in TaskIds :
        (/\ t # u
         /\ Done(t, "castVote") /\ Done(u, "castVote")
         /\ Task(t).req.ballotId = Task(u).req.ballotId
         /\ Task(t).req.nullifier = Task(u).req.nullifier
         /\ Task(t).out = "ok")
        => Task(u).out # "ok"

\* C3: a cast_vote that passes the ballot and format checks while its nullifier
\* is stored for the ballot goes on to be rejected with DoubleVote, whatever its
\* commitment and proof, and no step of it changes the vote table.
C3_StoredNullifierRejected ==
    [][\A t \in TaskIds :
        LET ballot == LocalBallot(t)
            req == Task(t).req
        IN  /\ (/\ Task(t).op = "castVote" /\ Task(t).pc = "CV_Check"
                /\ tasks'[t] # tasks[t]
                /\ StoredVote(req.ballotId, req.nullifier)
                /\ ballot # Null /\ ballot.status # "petition" /\ now < ballot.deadline
                /\ req.commitment # Malformed /\ req.nullifier # Malformed)
               => (tasks'[t].pc = "CV_HasVoted" /\ tasks'[t].flag /\ votes' = votes)
            /\ (/\ Task(t).op = "castVote" /\ Task(t).pc = "CV_HasVoted"
                /\ tasks'[t] # tasks[t]
                /\ Task(t).flag)
               => (tasks'[t].pc = "done" /\ tasks'[t].out = "DOUBLE_VOTE"
                   /\ votes' = votes)]_vars

\* a call was rejected as a double vote though it carried a commitment other than
\* the stored one and a token the issuer had issued
C3_Witness ==
    \E t \in TaskIds :
        /\ Done(t, "castVote") /\ Task(t).out = "DOUBLE_VOTE"
        /\ Task(t).req.proof \in issued
        /\ \E v \in votes :
            /\ v.ballotId = Task(t).req.ballotId
            /\ v.nullifier = Task(t).req.nullifier
            /\ v.commitment # Task(t).req.commitment

\* C8: the step of cast_vote that adds a vote to the store belongs to a call that
\* read its clock before the deadline of a ballot that is not a petition, and the
\* attestation is not after the deadline; an attestation exactly at the deadline
\* is stored, a later one ends the call with TooLate and stores nothing.
C8_VoteWindow ==
    [][\A t \in TaskIds :
        LET ballot == ballots[Task(t).req.ballotId]
            attestationMs == Task(t).att.timestamp * MsPerSecond
        IN  (Task(t).op = "castVote" /\ Task(t).pc = "CV_Attested" /\ tasks'[t] # tasks[t])
            => /\ votes' # votes
                  => /\ ballot.status # "petition"
                     /\ Task(t).n < ballot.deadline
                     /\ attestationMs <= ballot.deadline
               /\ attestationMs = ballot.deadline
                  => /\ tasks'[t].pc = "CV_Saved"
                     /\ \E v \in votes' : /\ v.ballotId = Task(t).req.ballotId
                                          /\ v.nullifier = Task(t).req.nullifier
               /\ attestationMs > ballot.deadline
                  => (tasks'[t].out = "TOO_LATE" /\ votes' = votes)]_vars

\* a vote attested exactly at the deadline is stored while another call has
\* ended with TooLate
C8_Witness ==
    /\ \E v \in votes :
        v.attestation.timestamp * MsPerSecond = ballots[v.ballotId].deadline
    /\ \E t \in TaskIds : Done(t, "castVote") /\ Task(t).out = "TOO_LATE"

\* C10: a cast_vote that ends with an error has stored no vote, and one that
\* returns a vote has stored exactly that vote.
C10_ReturnMatchesStore ==
    [][\A t \in TaskIds :
        (Task(t).op = "castVote" /\ Task(t).pc # "done" /\ tasks'[t].pc = "done")
        => IF tasks'[t].out = "ok"
           THEN tasks'[t].val \in votes'
           ELSE ~(Task(t).pc = "CV_Saved" /\ Task(t).val \in votes)]_vars

\* C4: the calls of one requester key leave at most one stored vote on a ballot
\* among the votes that carry tokens issued to that voter.  (Under SpecOneVoter
\* every token is issued to pk1 and every call is made by pk1.)
C4_OneVotePerVoter ==
    \A v, w \in votes :
        (v.ballotId = w.ballotId /\ v.proof \in issued /\ w.proof \in issued) => v = w

\* two votes of the one voter are stored on a ballot, each with its own token
C4_TwoTokensTwoVotes ==
    \E v, w \in votes :
        /\ v.ballotId = w.ballotId /\ v.nullifier # w.nullifier
        /\ v.proof \in issued /\ w.proof \in issued /\ v.proof # w.proof

\* the commitment that a reveal's choice (or structured vote data) and salt hash to
RevealCommitment(r) ==
    IF r.voteData = Null
    THEN Hash(<<r.choice, r.salt>>)
    ELSE Hash(<<serializeVoteData(r.voteData), r.salt>>)

\* C5: every stored reveal has a stored vote with its ballot and nullifier whose
\* commitment is the one recomputed from the reveal; a submit_reveal that finds
\* no such vote, or whose choice or salt hash to another commitment, ends with
\* InvalidReveal and leaves the reveal table as it was.
C5_RevealNeedsMatchingVote ==
    [][/\ \A r \in reveals' :
            \E v \in votes' : /\ v.ballotId = r.ballotId /\ v.nullifier = r.nullifier
                              /\ v.commitment = RevealCommitment(r)
       /\ \A t \in TaskIds :
            LET req == Task(t).req
            IN  (/\ Task(t).op = "submitReveal" /\ Task(t).pc = "SR_Votes"
                 /\ tasks'[t] # tasks[t]
                 /\ ~\E v \in votes : /\ v.ballotId = req.ballotId
                                      /\ v.nullifier = req.nullifier
                                      /\ v.commitment = RevealCommitment(req))
                => (tasks'[t].out = "INVALID_REVEAL" /\ reveals' = reveals)]_vars

\* a reveal is stored, and a reveal of the same vote with another choice has been
\* rejected as invalid
C5_Witness ==
    \E r \in reveals, t \in TaskIds :
        /\ Done(t, "submitReveal") /\ Task(t).out = "INVALID_REVEAL"
        /\ Task(t).req.nullifier = r.nullifier
        /\ Task(t).req.choice # r.choice
        /\ Task(t).req.salt = r.salt

\* C9: a submit_reveal whose clock reading is before the deadline ends with
\* BallotClosed, one at or after the reveal deadline ends with
\* BallotNotRevealing, and neither changes the store; one from the deadline up to
\* the reveal deadline passes the phase check; a reveal is stored only by a call
\* whose clock reading was in that window.
C9_RevealWindow ==
    [][\A t \in TaskIds :
        LET ballot == LocalBallot(t)
        IN  /\ (/\ Task(t).op = "submitReveal" /\ Task(t).pc = "SR_Check"
                /\ tasks'[t] # tasks[t] /\ ballot # Null)
               => /\ now < ballot.deadline
                     => (tasks'[t].out = "BALLOT_CLOSED" /\ reveals' = reveals)
                  /\ now >= ballot.revealDeadline
                     => (tasks'[t].out = "BALLOT_NOT_REVEALING" /\ reveals' = reveals)
                  /\ (now >= ballot.deadline /\ now < ballot.revealDeadline)
                     => tasks'[t].out \notin {"BALLOT_CLOSED", "BALLOT_NOT_REVEALING"}
            /\ (/\ Task(t).op = "submitReveal" /\ tasks'[t] # tasks[t]
                /\ reveals' # reveals)
               => (Task(t).n >= ballot.deadline /\ Task(t).n < ballot.revealDeadline)]_vars

\* a reveal submitted exactly at the deadline is stored, and one submitted a
\* millisecond before the deadline has ended with BallotClosed
C9_Witness ==
    /\ \E t \in TaskIds :
        /\ Task(t).op = "submitReveal" /\ Task(t).pc = "SR_Saved"
        /\ Task(t).n = ballots[Task(t).req.ballotId].deadline
        /\ Task(t).val \in reveals
    /\ \E t \in TaskIds : Done(t, "submitReveal") /\ Task(t).out = "BALLOT_CLOSED"

\* the step is one of the two writes of activateBallot, made by task t
ActivationStep(t) ==
    /\ Task(t).op = "signPetition"
    /\ Task(t).pc \in {"AB_Loaded", "AB_Deadlines"}
    /\ tasks'[t] # tasks[t]

\* C6: a ballot in petition status leaves that status only through petition
\* activation, to voting; no other step (the clock, get or list ballots, status
\* query, result or live-tally request, vote, reveal) changes its status or its
\* deadlines.
C6_PetitionLeavesOnlyByActivation ==
    [][\A b \in BallotIds :
          (ballots[b] # Null /\ ballots[b].status = "petition") =>
              \/ /\ ballots'[b].status = "petition"
                 /\ ballots'[b].deadline = ballots[b].deadline
                 /\ ballots'[b].revealDeadline = ballots[b].revealDeadline
              \/ /\ \E t \in TaskIds : ActivationStep(t)
                 /\ ballots'[b].status \in {"petition", "voting"}]_vars

\* a get_results call has returned a result for a ballot that no petition
\* signature was ever stored for
C6_Witness ==
    \E t \in TaskIds, b \in BallotIds :
        /\ Done(t, "getResults")
        /\ Task(t).out = "ok"
        /\ Task(t).val # Null
        /\ ballotGate = "petition"
        /\ getPetitionSignatures(signatures, b) = {}
        /\ ballots[b] # Null
        /\ ballots[b].status = "finalized"

\* C7: once a ballot's status is recorded as finalized, no step (status
\* recomputation, petition activation, result computation) sets it back to
\* petition, voting or revealing.
C7_FinalizedIsSticky ==
    [][\A b \in BallotIds :
          (ballots[b] # Null /\ ballots[b].status = "finalized") =>
              ballots'[b].status = "finalized"]_vars

\* C1: whatever the interleaving of cast_vote calls, submit_reveal calls and
\* gossip vote and reveal receipts, the store holds at most one vote and at most
\* one reveal per (ballot id, nullifier).
C1_UniquePerNullifier ==
    /\ \A v, w \in votes :
          (v.ballotId = w.ballotId /\ v.nullifier = w.nullifier) => v = w
    /\ \A r, q \in reveals :
          (r.ballotId = q.ballotId /\ r.nullifier = q.nullifier) => r = q

\* a cast_vote call has passed its double-vote check and called saveVote with a
\* vote whose nullifier a gossip receipt had stored in between, with another
\* commitment: the store kept the one it had
C1_Witness ==
    \E t \in TaskIds :
        /\ Task(t).op = "castVote"
        /\ Task(t).pc = "CV_Saved"
        /\ Task(t).val \notin votes
        /\ \E v \in votes :
              /\ v.ballotId = Task(t).val.ballotId
              /\ v.nullifier = Task(t).val.nullifier
              /\ v.commitment # Task(t).val.commitment

\* C11: of the submit_reveal calls for one (ballot id, nullifier), sequential
\* or in flight together, at most one returns the reveal; the others fail.
C11_OneRevealReturned ==
    \A t, u \in TaskIds :
        (/\ t # u
         /\ Done(t, "submitReveal") /\ Done(u, "submitReveal")
         /\ Task(t).req.ballotId = Task(u).req.ballotId
         /\ Task(t).req.nullifier = Task(u).req.nullifier
         /\ Task(t).out = "ok")
        => Task(u).out # "ok"

\* two calls for one key have both returned a reveal, and one reveal is stored
C11_Witness ==
    \E t, u \in TaskIds :
        /\ t # u
        /\ Done(t, "submitReveal") /\ Done(u, "submitReveal")
        /\ Task(t).out = "ok" /\ Task(u).out = "ok"
        /\ Task(t).req.nullifier = Task(u).req.nullifier
        /\ Task(t).val # Null /\ Task(u).val # Null
        /\ Cardinality(getRevealsByBallot(reveals, Task(t).req.ballotId)) = 1

\* the choices a stored reveal names: those of its structured data, or its
\* choice field when it has none
NamedChoices(r) ==
    IF r.voteData = Null THEN {r.choice}
    ELSE CASE r.voteData.type = "single" -> {r.voteData.choice}
           [] r.voteData.type = "approval" -> SeqRange(r.voteData.choices)
           [] r.voteData.type = "ranked" -> SeqRange(r.voteData.rankings)
           [] r.voteData.type = "score" ->
                 {r.voteData.scores[i][1] : i \in DOMAIN r.voteData.scores}

\* C12: submit_reveal accepts only vote data that fits the ballot, so every
\* stored reveal names only choices of its ballot.
C12_StoredRevealsNameBallotChoices ==
    \A r \in reveals :
        ballots[r.ballotId] # Null
            => NamedChoices(r) \subseteq SeqRange(ballots[r.ballotId].choices)

\* a call that submitted a choice outside the ballot returned its reveal
C12_Witness ==
    \E t \in TaskIds :
        /\ Done(t, "submitReveal")
        /\ Task(t).out = "ok"
        /\ Task(t).req.choice = Outsider
        /\ \E r \in reveals : r.nullifier = Task(t).req.nullifier /\ r.choice = Outsider

SignatureCount(b) == Cardinality(getPetitionSignatures(signatures, b))

\* C13: with signature calls made one after the other, the ballot stays in
\* petition status with deadlines 0 below the threshold, and the call that
\* brings the count to the threshold reports activation and leaves the ballot
\* in voting status with its deadlines set.
C13_ThresholdSignatureActivates ==
    /\ \A b \in BallotIds :
           (ballots[b] # Null /\ SignatureCount(b) < PetitionThreshold)
               => /\ ballots[b].status = "petition"
                  /\ ballots[b].deadline = 0
                  /\ ballots[b].revealDeadline = 0
    /\ \A t \in TaskIds :
           (/\ Done(t, "signPetition")
            /\ Task(t).out = "ok"
            /\ Task(t).val.added
            /\ Task(t).val.current = PetitionThreshold)
               => /\ Task(t).val.activated
                  /\ ballots[Task(t).req.ballotId].status = "voting"
                  /\ ballots[Task(t).req.ballotId].deadline > 0
                  /\ ballots[Task(t).req.ballotId].revealDeadline >
                         ballots[Task(t).req.ballotId].deadline

\* a call has added the signature that makes the count equal to the threshold
C13_Witness ==
    \E t \in TaskIds :
        /\ Done(t, "signPetition")
        /\ Task(t).out = "ok"
        /\ Task(t).val.added
        /\ Task(t).val.current = PetitionThreshold
        /\ ~Task(t).val.activated
        /\ ballots[Task(t).req.ballotId].status = "petition"

\* a signature call that carries the activation flag
CarriesActivation(t) ==
    /\ Task(t).op = "signPetition"
    /\ Task(t).val # Null
    /\ Task(t).val.activated

\* C14: however the signature calls are ordered or interleaved, one call
\* carries the activation flag, and the deadlines of a ballot, once set, are
\* never written again.
C14_ActivatedOnce ==
    [][/\ \A t, u \in TaskIds :
             (/\ t # u
              /\ CarriesActivation(t)' /\ CarriesActivation(u)'
              /\ Task(t)'.req.ballotId = Task(u)'.req.ballotId)
                 => FALSE
       /\ \A t \in TaskIds :
             (Task(t).pc = "AB_Loaded" /\ Task(t)'.pc = "AB_Deadlines")
                 => ballots[Task(t).req.ballotId].deadline = 0]_vars

\* two calls for one ballot carry the activation flag and both returned it
C14_Witness ==
    \E t, u \in TaskIds :
        /\ t # u
        /\ CarriesActivation(t) /\ CarriesActivation(u)
        /\ Done(t, "signPetition") /\ Done(u, "signPetition")
        /\ Task(t).out = "ok" /\ Task(u).out = "ok"
        /\ Task(t).req.ballotId = Task(u).req.ballotId

\* the call found its key among the recorded signatures
AlreadySigned(t) ==
    /\ Task(t).op = "signPetition"
    /\ Task(t).val # Null
    /\ ~Task(t).val.added

\* C15: a call by a key that has already signed returns added = false with the
\* current activation state, without an error and without a change to the
\* signatures or to the ballot.
C15_SigningAgainChangesNothing ==
    [][\A t \in TaskIds :
           AlreadySigned(t) =>
               /\ signatures' = signatures
               /\ ballots' = ballots
               /\ Task(t)'.pc = "done" => Task(t)'.out = "ok"]_vars

\* a key that had signed signed again once the threshold was reached
C15_Witness ==
    \E t \in TaskIds :
        /\ Task(t).op = "signPetition"
        /\ Task(t).pc = "done"
        /\ \E s \in signatures :
               s.ballotId = Task(t).req.ballotId /\ s.publicKey = Task(t).req.publicKey
        /\ SignatureCount(Task(t).req.ballotId) >= PetitionThreshold
        /\ Task(t).out = "Ballot is not in petition status"

\* the rounds a tally has recorded so far
RecordedRounds(t) ==
    IF Task(t).op # "computeRankedChoiceTally" THEN <<>>
    ELSE IF Task(t).pc = "IRV_Loop" THEN Task(t).aux.rounds
    ELSE Task(t).val.rankedChoiceRounds

\* the first of a set of names in the order of their code units
AsciiFirst(S) == CHOOSE c \in S : \A d \in S \ {c} : CodeUnitLess(c, d)

RoundCounts(round) == {round.votes[i][2] : i \in DOMAIN round.votes}

TiedForFewest(round) ==
    {round.votes[i][1] : i \in {j \in DOMAIN round.votes :
                                    round.votes[j][2] = SetMin(RoundCounts(round))}}

\* C17: in a round without a majority the choice eliminated is, among the
\* choices tied for the fewest votes, the first in ASCII order of its name.
C17_TieEliminatesAsciiFirst ==
    \A t \in TaskIds :
        \A k \in DOMAIN RecordedRounds(t) :
            LET round == RecordedRounds(t)[k]
            IN  round.eliminated # NoChoice
                    => round.eliminated = AsciiFirst(TiedForFewest(round))

\* a round eliminated one of several choices tied for the fewest votes
C17_Witness ==
    \E t \in TaskIds :
        \E k \in DOMAIN RecordedRounds(t) :
            LET round == RecordedRounds(t)[k]
            IN  /\ round.eliminated # NoChoice
                /\ Cardinality(TiedForFewest(round)) > 1
                /\ round.eliminated # AsciiFirst(TiedForFewest(round))

RECURSIVE SumCounts(_)
SumCounts(entries) ==
    IF entries = <<>> THEN 0 ELSE Head(entries)[2] + SumCounts(Tail(entries))

\* the top choice of the round has more than half of the round's votes
ReachesMajority(round) ==
    SetMax(RoundCounts(round)) >= (SumCounts(round.votes) \div 2) + 1

\* C18: a round's total is the sum of its votes and the majority needed is
\* floor(total / 2) + 1; the first round whose top choice reaches it is
\* recorded without an elimination and is the last one, and every other round
\* eliminates a choice.
C18_StopsAtMajorityOfRoundVotes ==
    \A t \in TaskIds :
        \A k \in DOMAIN RecordedRounds(t) :
            LET round == RecordedRounds(t)[k]
            IN  /\ ReachesMajority(round) <=> round.eliminated = NoChoice
                /\ ReachesMajority(round) => k = Len(RecordedRounds(t))

\* a round was counted while a ballot had none of its choices left
C18_Witness ==
    \E t \in TaskIds :
        /\ Done(t, "computeRankedChoiceTally")
        /\ \E k \in DOMAIN RecordedRounds(t) :
              LET round == RecordedRounds(t)[k]
              IN  /\ SumCounts(round.votes) < Len(Task(t).req.rankings)
                  /\ ReachesMajority(round)
                  /\ round.eliminated # NoChoice

\* C19: the round loop ends, whatever the ballot and the valid rankings, and
\* records at most |choices| + 1 rounds.
C19_LoopEndsWithinBound ==
    /\ [](\A t \in TaskIds :
             Task(t).op = "computeRankedChoiceTally"
                 => Len(RecordedRounds(t)) <= Len(Task(t).req.choices) + 1)
    /\ (\E t \in TaskIds : Task(t).pc = "IRV_Loop")
           ~> (\E t \in TaskIds : Done(t, "computeRankedChoiceTally"))

\* a tally of three choices has ended after eliminating in each of its rounds
C19_Witness ==
    \E t \in TaskIds :
        /\ Done(t, "computeRankedChoiceTally")
        /\ Len(Task(t).req.choices) = 3
        /\ Len(RecordedRounds(t)) = 2
        /\ RecordedRounds(t)[2].eliminated # NoChoice

\* the reveals of a ballot whose commitment is the one of the vote they name
ValidReveals(b) ==
    {r \in getRevealsByBallot(reveals, b) :
        \E v \in getVotesByBallot(votes, b) :
            /\ v.nullifier = r.nullifier
            /\ v.commitment = computedCommitment(r, ballots[b])}

RECURSIVE SumTally(_, _)
SumTally(tally, S) ==
    IF S = {} THEN 0
    ELSE LET c == CHOOSE c \in S : TRUE
         IN  (IF c \in DOMAIN tally THEN tally[c] ELSE 0) + SumTally(tally, S \ {c})

\* C16: the tally of a stored result counts exactly the valid reveals: the
\* counts of a single-choice ballot over its choices sum to valid_reveals and a
\* choice nobody revealed has 0; an approval count is the number of valid
\* reveals approving the choice; a score tally is the sum of the scores given.
C16_TallyCountsValidReveals ==
    \A b \in BallotIds :
        (results[b] # Null /\ ballots[b] # Null) =>
            LET tally == results[b].tally
                ballot == ballots[b]
                valid == ValidReveals(b)
                choices == SeqRange(ballot.choices)
            IN  /\ results[b].validReveals = Cardinality(valid)
                /\ choices \subseteq DOMAIN tally
                /\ CASE voteTypeOf(ballot) = "single" ->
                          /\ SumTally(tally, choices) = results[b].validReveals
                          /\ \A c \in choices :
                                 (\A r \in valid : r.choice # c) => tally[c] = 0
                     [] voteTypeOf(ballot) = "approval" ->
                          \A c \in choices :
                              tally[c] = Cardinality({r \in valid :
                                             c \in SeqRange(approvedChoices(r))})
                     [] voteTypeOf(ballot) = "score" ->
                          \A c \in choices : tally[c] = TotalScore(c, valid)
                     [] OTHER -> TRUE

\* a result was stored for a ballot with a valid reveal of a choice that is
\* not one of the ballot's
C16_Witness ==
    \E b \in BallotIds :
        /\ results[b] # Null /\ ballots[b] # Null
        /\ results[b].validReveals = 1
        /\ \E r \in ValidReveals(b) : r.choice \notin SeqRange(ballots[b].choices)
        /\ SumTally(results[b].tally, SeqRange(ballots[b].choices)) = 0

\* two results with the same tally and the same counts
SameCount(r, s) ==
    /\ r.tally = s.tally
    /\ r.totalVotes = s.totalVotes
    /\ r.validReveals = s.validReveals

\* C20: once a result is stored for a ballot it stays the result: it is not
\* replaced by one with another tally or other counts, and a request that
\* returns a result from then on returns that one.
C20_StoredResultIsReturned ==
    [][\A b \in BallotIds :
           results[b] # Null =>
               /\ SameCount(results'[b], results[b])
               /\ \A t \in TaskIds :
                      (/\ ~Done(t, "getResults")
                       /\ Done(t, "getResults")'
                       /\ Task(t)'.req.ballotId = b
                       /\ Task(t)'.out = "ok"
                       /\ Task(t)'.val # Null)
                          => SameCount(Task(t)'.val, results[b])]_vars

\* two requests have returned a result for the ballot, and the results differ
C20_Witness ==
    \E t, u \in TaskIds :
        /\ t # u
        /\ Done(t, "getResults") /\ Done(u, "getResults")
        /\ Task(t).req = Task(u).req
        /\ Task(t).out = "ok" /\ Task(u).out = "ok"
        /\ Task(t).val # Null /\ Task(u).val # Null
        /\ ~SameCount(Task(t).val, Task(u).val)

\* C21: two requests for the result of one ballot that are in flight together
\* return payloads with equal tally, total_votes and valid_reveals, and the
\* stored result is one of the two.
C21_ConcurrentResultsAgree ==
    \A t, u \in TaskIds :
        (/\ t # u
         /\ Done(t, "getResults") /\ Done(u, "getResults")
         /\ Task(t).req.ballotId = Task(u).req.ballotId
         /\ Task(t).out = "ok" /\ Task(u).out = "ok"
         /\ Task(t).val # Null /\ Task(u).val # Null)
            => /\ SameCount(Task(t).val, Task(u).val)
               /\ results[Task(t).req.ballotId] # Null
               /\ \/ SameCount(results[Task(t).req.ballotId], Task(t).val)
                  \/ SameCount(results[Task(t).req.ballotId], Task(u).val)

\* two requests, neither of which found a stored result when it was called,
\* have returned results that count different numbers of valid reveals
C21_Witness ==
    \E t, u \in TaskIds :
        /\ t # u
        /\ Done(t, "getResults") /\ Done(u, "getResults")
        /\ Task(t).out = "ok" /\ Task(u).out = "ok"
        /\ Task(t).val # Null /\ Task(u).val # Null
        /\ Task(t).val.validReveals = 0
        /\ Task(u).val.validReveals = 1
        /\ Task(t).val.totalVotes = 1


\* what the instance voter gate and the ballot's own eligibility admit, as sets
\* of keys
GateAdmitted ==
    IF voterGate.type = "allowlist" THEN voterGate.allowlist ELSE PublicKeys

BallotAdmitted(ballot) ==
    IF ballot.eligibility.type = "open" THEN PublicKeys
    ELSE IF ballot.eligibility.type \in {"invite-list", "allowlist"}
    THEN ballot.eligibility.list
    ELSE {}

\* C22: a token request that was answered with a token named a ballot that
\* exists and is not in petition, and a requester whom the instance voter gate
\* admits and the ballot's eligibility admits as well, so that the keys a
\* ballot gives tokens to are among those the instance gate admits.
C22_TokenOnlyToAdmitted ==
    \A t \in TaskIds :
        (Done(t, "requestEligibilityToken") /\ Task(t).out = "ok")
            => LET ballot == ballots[Task(t).req.ballotId]
                   pk == Task(t).req.publicKey
               IN  /\ ballot # Null
                   /\ ballot.status # "petition"
                   /\ pk \in GateAdmitted
                   /\ pk \in BallotAdmitted(ballot)
                   /\ Task(t).val \in issued

\* a key on the instance allowlist and on the ballot's list got a token, of a
\* ballot whose list also names a key the instance gate refuses
C22_Witness ==
    \E t \in TaskIds :
        /\ Done(t, "requestEligibilityToken")
        /\ Task(t).out = "ok"
        /\ voterGate.type = "allowlist"
        /\ ballots[Task(t).req.ballotId] # Null
        /\ ballots[Task(t).req.ballotId].eligibility.type = "allowlist"
        /\ ~(ballots[Task(t).req.ballotId].eligibility.list \subseteq voterGate.allowlist)


\* C23: a commitment to vote data under a salt verifies against the same vote
\* data and salt, and against no other vote data under that salt.
C23_VerifiesOnlyItsVoteData ==
    \A t \in TaskIds :
        (Done(t, "generateVoteCommitment") /\ Task(t).val.salt = Task(t).req.salt)
            => (Task(t).val.valid <=> Task(t).val.voteData = Task(t).req.voteData)

\* a commitment verified against vote data of another type, under its salt
C23_Witness ==
    \E t \in TaskIds :
        /\ Done(t, "generateVoteCommitment")
        /\ Task(t).val.salt = Task(t).req.salt
        /\ Task(t).val.valid
        /\ Task(t).req.voteData.type = "approval"
        /\ Task(t).val.voteData.type = "single"


\* C24: every stored ballot has between 2 and MaxChoices choices, distinct and
\* none empty, and 0 < created <= deadline <= revealDeadline, unless its status
\* is petition, when both deadlines are 0.
C24_StoredBallotsWellFormed ==
    \A b \in BallotIds :
        ballots[b] # Null
            => /\ Len(ballots[b].choices) >= 2
               /\ Len(ballots[b].choices) <= MaxChoices
               /\ \A i \in DOMAIN ballots[b].choices : ballots[b].choices[i] # <<>>
               /\ \A i, j \in DOMAIN ballots[b].choices :
                      i # j => ballots[b].choices[i] # ballots[b].choices[j]
               /\ IF ballots[b].status = "petition"
                  THEN ballots[b].deadline = 0 /\ ballots[b].revealDeadline = 0
                  ELSE /\ 0 < ballots[b].created
                       /\ ballots[b].created <= ballots[b].deadline
                       /\ ballots[b].deadline <= ballots[b].revealDeadline

\* createBallot has returned a ballot it stored, whose reveal deadline precedes
\* its deadline
C24_Witness ==
    \E t \in TaskIds :
        /\ Done(t, "createBallot")
        /\ Task(t).val # Null
        /\ ballots[Task(t).val.id] # Null
        /\ ballots[Task(t).val.id].status # "petition"
        /\ ballots[Task(t).val.id].creatorPublicKey = "pk1"
        /\ ballots[Task(t).val.id].revealDeadline < ballots[Task(t).val.id].deadline


\* the reveal submitReveal hands to the store
RevealToSave(req) ==
    [ballotId |-> req.ballotId, nullifier |-> req.nullifier, choice |-> req.choice,
     salt |-> req.salt,
     voteData |-> IF voteDataOf(req).type # "single" THEN voteDataOf(req) ELSE Null]

\* C25: what createBallot and submitReveal hand to the store is read back the
\* same from the SQLite store and from the in-memory store, for ballots and
\* votes of the four vote types, so that admission and the tally do not depend
\* on the store.
C25_StoresReadBackAlike ==
    \A t \in TaskIds :
        /\ Task(t).pc = "CB_Save"
              => StoredBallot("sqlite", Task(t).val) = StoredBallot("memory", Task(t).val)
        /\ (Task(t).pc = "SR_Existing" /\ Task(t).aux = Null)
              => StoredReveal("sqlite", RevealToSave(Task(t).req))
                     = StoredReveal("memory", RevealToSave(Task(t).req))

\* on the SQLite store an approval ballot was created and read back without
\* its vote type, and a result of it was returned
C25_Witness ==
    \E t \in TaskIds, b \in BallotIds :
        /\ storeKind = "sqlite"
        /\ Done(t, "getResults")
        /\ Task(t).out = "ok"
        /\ Task(t).req.ballotId = b
        /\ ballots[b] # Null
        /\ ballots[b].voteType = Null
        /\ reveals # {}


\* the task passes from the checks of onReceiveVote to its outcome with a vote
\* whose token and attestation are valid and in time
ValidVoteDecided(t) ==
    /\ Task(t).pc = "RV_Verified"
    /\ tasks'[t].pc # "RV_Verified"
    /\ Task(t).flag
    /\ witnessVerify(Task(t).req)
    /\ Task(t).req.payload.attestation.timestamp * MsPerSecond <= LocalBallot(t).deadline

CachedFor(vote) == {e \in nullifiers : e.key = nullifierKey(vote.ballotId, vote.nullifier)}

\* C26: for a valid gossiped vote the cache entry of its ballot and nullifier
\* decides. None: an entry with peer count 1 is made and the vote is stored and
\* goes on to reward and rebroadcast. Same commitment: a duplicate, the peer
\* count goes up by one, nothing is sent. Another commitment: a double vote,
\* nothing is stored or sent and the peer count stays as it was.
C26_CacheEntryDecides ==
    [][\A t \in TaskIds :
          ValidVoteDecided(t) =>
              LET vote == Task(t).req.payload
              IN  IF CachedFor(vote) = {}
                  THEN /\ \E e \in nullifiers' :
                             /\ e.key = nullifierKey(vote.ballotId, vote.nullifier)
                             /\ e.commitment = vote.commitment
                             /\ e.peerCount = 1
                       /\ hasNullifier(votes', vote.ballotId, vote.nullifier)
                       /\ tasks'[t].pc = "HM_Saved"
                  ELSE \A e \in CachedFor(vote) :
                          /\ votes' = votes
                          /\ sent' = sent
                          /\ tasks'[t].pc = "done"
                          /\ IF e.commitment = vote.commitment
                             THEN /\ tasks'[t].out = "duplicate"
                                  /\ [e EXCEPT !.peerCount = @ + 1] \in nullifiers'
                             ELSE /\ tasks'[t].out = "double_vote"
                                  /\ e \in nullifiers']_vars

\* a double vote was found against an entry whose peer count is now 2
C26_Witness ==
    \E t \in TaskIds :
        /\ Done(t, "handleMessage")
        /\ Task(t).out = "double_vote"
        /\ \E e \in nullifiers :
               /\ e.key = nullifierKey(Task(t).req.payload.ballotId,
                                       Task(t).req.payload.nullifier)
               /\ e.commitment # Task(t).req.payload.commitment
               /\ e.peerCount = 2


\* the stored votes of the ballot and nullifier of a vote, with another commitment
StoredWithOtherCommitment(vote) ==
    {v \in votes : /\ v.ballotId = vote.ballotId
                   /\ v.nullifier = vote.nullifier
                   /\ v.commitment # vote.commitment}

\* C27: a valid gossiped vote whose ballot and nullifier are those of a stored
\* vote, one cast on this node included, and whose commitment is another one,
\* is treated as a double vote: its sender is not rewarded and it is not
\* rebroadcast.
C27_LocalVotesCountForDoubleVote ==
    [][\A t \in TaskIds :
          (ValidVoteDecided(t) /\ StoredWithOtherCommitment(Task(t).req.payload) # {})
              => /\ tasks'[t].pc = "done"
                 /\ tasks'[t].out = "double_vote"]_vars

\* a gossiped vote was accepted, its sender rewarded and the vote sent on,
\* while the store holds the vote cast here with another commitment
C27_Witness ==
    \E t \in TaskIds :
        /\ Done(t, "handleMessage")
        /\ Task(t).req.type = "vote"
        /\ Task(t).out \in {"ok", "NOT_CONNECTED"}
        /\ StoredWithOtherCommitment(Task(t).req.payload) # {}
        /\ peerScores[Task(t).req.sender] # Null
        /\ peerScores[Task(t).req.sender].validMessages > 0


\* C28: a result that getResults returns is the node's own tally of its stored
\* votes and reveals, made when the reveal deadline has passed: the ballot is
\* final, total_votes is the number of stored votes, valid_reveals the number
\* of stored reveals that match their vote, and each count of the tally the
\* number of those that name the choice.
C28_ReturnedResultIsOwnTally ==
    \A t \in TaskIds :
        (Done(t, "getResults") /\ Task(t).out = "ok" /\ Task(t).val # Null)
            => LET b == Task(t).req.ballotId
                   result == Task(t).val
               IN  /\ ballots[b] # Null
                   /\ now >= ballots[b].revealDeadline \/ ballots[b].status = "finalized"
                   /\ result.totalVotes = Cardinality(getVotesByBallot(votes, b))
                   /\ result.validReveals = Cardinality(ValidReveals(b))
                   /\ \A c \in SeqRange(ballots[b].choices) :
                          result.tally[c] = Cardinality({r \in ValidReveals(b) : r.choice = c})

\* before the reveal deadline a request returned the result a peer had sent,
\* which counts no vote while a vote is stored
C28_Witness ==
    \E t \in TaskIds :
        /\ Done(t, "getResults")
        /\ Task(t).out = "ok"
        /\ Task(t).val # Null
        /\ ballots[Task(t).req.ballotId] # Null
        /\ now < ballots[Task(t).req.ballotId].revealDeadline
        /\ ballots[Task(t).req.ballotId].status # "finalized"
        /\ Task(t).val.totalVotes = 0
        /\ getVotesByBallot(votes, Task(t).req.ballotId) # {}


\* the reveal a task submits has passed the commitment check of submitReveal
PassedIntegrityCheck(t) ==
    /\ Task(t).op = "submitReveal"
    /\ \/ Task(t).pc \in {"SR_Existing", "SR_Saved"}
       \/ Task(t).pc = "done" /\ Task(t).out = "ok"

\* C29: the commitment binds: two reveals for one vote, whatever their salts,
\* that both pass the commitment check disclose the same choice.
C29_CommitmentBinds ==
    \A t, u \in TaskIds :
        (/\ PassedIntegrityCheck(t)
         /\ PassedIntegrityCheck(u)
         /\ Task(t).req.ballotId = Task(u).req.ballotId
         /\ Task(t).req.nullifier = Task(u).req.nullifier)
            => Task(t).req.choice = Task(u).req.choice

\* the reveal of "AB" under "x" was stored and returned, and the reveal of "A"
\* under "Bx" has passed the check against the same commitment
C29_Witness ==
    \E t, u \in TaskIds :
        /\ Done(t, "submitReveal")
        /\ Task(t).out = "ok"
        /\ Task(t).req.choice = BindingChoices[2]
        /\ Task(u).op = "submitReveal"
        /\ Task(u).pc = "SR_Existing"
        /\ Task(u).req.choice = BindingChoices[1]
        /\ Task(u).req.nullifier = Task(t).req.nullifier
        /\ \E r \in reveals : r.choice = BindingChoices[2]


\* Crypto.hash(ballotId, nullifier, commitment) of a vote
voteHashOf(vote) == Hash(<<vote.ballotId, vote.nullifier, vote.commitment>>)

\* C30: every stored vote, cast here or received from a peer, carries an
\* attestation of the hash of its own ballot id, nullifier and commitment.
C30_StoredVotesAttestTheirHash ==
    \A v \in votes : v.attestation.hash = voteHashOf(v)

\* a vote received from a peer was stored and sent on, and its attestation is
\* one of another hash
C30_Witness ==
    \E t \in TaskIds :
        /\ Done(t, "handleMessage")
        /\ Task(t).req.type = "vote"
        /\ Task(t).out \in {"ok", "NOT_CONNECTED"}
        /\ Task(t).req.payload \in votes
        /\ Task(t).req.payload.attestation.hash # voteHashOf(Task(t).req.payload)


\* C31: the stored votes of a ballot have nullifiers of different bytes: two
\* votes whose nullifiers spell the same bytes, in whatever letter case, are
\* one vote.
C31_OneVotePerNullifierValue ==
    \A v, w \in votes :
        (v.ballotId = w.ballotId /\ hexToBytes(v.nullifier) = hexToBytes(w.nullifier))
            => v = w

\* the vote with the nullifier in upper case was cast and returned after the
\* vote with the nullifier in lower case was stored
C31_Witness ==
    \E t \in TaskIds :
        /\ Done(t, "castVote")
        /\ Task(t).out \in {"ok", "NOT_CONNECTED"}
        /\ Task(t).req.nullifier = toUpperCase(generateNullifier(<<"s1">>, <<"b1">>))
        /\ \E v \in votes : v.nullifier = generateNullifier(<<"s1">>, <<"b1">>)
        /\ \E v \in votes : v.nullifier = Task(t).req.nullifier


\* a handler of a signed envelope of the peer is in flight before or after the step
SignedEnvelopeHandled(peer) ==
    \E t \in TaskIds :
        \/ /\ Task(t).op = "handleMessage"
           /\ Task(t).req.sender = peer
           /\ Task(t).req.signed
        \/ /\ tasks'[t].op = "handleMessage"
           /\ tasks'[t].req.sender = peer
           /\ tasks'[t].req.signed

\* C32: the score of a peer changes only in the handling of an envelope that
\* carries a valid signature of that peer; envelopes that only name it as the
\* sender leave its score as it is, so they cannot get its signed envelopes
\* dropped.
C32_ScoreMovesOnSignedEnvelopesOnly ==
    [][\A peer \in Peers :
          peerScores'[peer] # peerScores[peer] => SignedEnvelopeHandled(peer)]_vars

\* a signed envelope of the peer was dropped for its score, which fewer signed
\* envelopes than it takes had lowered
C32_Witness ==
    \E t \in TaskIds :
        /\ Done(t, "handleMessage")
        /\ Task(t).req.signed
        /\ Task(t).out = "ignored"
        /\ peerScores[Task(t).req.sender].score < PeerScoreThreshold
        /\ calls <= MaxBanCalls


\* the score the peer has before the step, 100 for a peer not seen yet
ScoreBefore(peer) ==
    IF peerScores[peer] = Null THEN InitialPeerScore ELSE peerScores[peer].score

\* C37: an envelope whose signature does not verify is rejected in the step
\* that takes it up: the handler is over at once, no ballot, vote, reveal,
\* result or cache entry is written, nothing is sent, and the score of the
\* sender is lower by the default penalty of 10.
C37_InvalidSignatureOnlyPenalizes ==
    [][\A t \in TaskIds :
          (/\ Task(t).op = "idle"
           /\ tasks'[t].op = "handleMessage"
           /\ ~tasks'[t].req.signed)
          => /\ tasks'[t].pc = "done"
             /\ tasks'[t].out = "invalid_signature"
             /\ UNCHANGED <<ballots, votes, reveals, results, nullifiers, sent>>
             /\ peerScores'[tasks'[t].req.sender].score
                    = ScoreBefore(tasks'[t].req.sender) - 10]_vars

\* an envelope with a bad signature was rejected and its sender stands at 90
C37_Witness ==
    \E t \in TaskIds :
        /\ Done(t, "handleMessage")
        /\ ~Task(t).req.signed
        /\ Task(t).out = "invalid_signature"
        /\ peerScores[Task(t).req.sender].score = InitialPeerScore - DefaultPenalty


\* the handler of an envelope has started and has not returned
Handling(t) == Task(t).op = "handleMessage" /\ Task(t).pc # "done"

\* C36: the envelopes of one peer are handled one at a time: while the handler
\* of an envelope of a peer waits for the store, the issuer or the witness, no
\* handler of another envelope of the same peer has started.
C36_OneHandlerPerPeer ==
    \A t, u \in TaskIds :
        (t # u /\ Handling(t) /\ Handling(u))
        => Task(t).req.sender # Task(u).req.sender

\* two signed envelopes of one peer wait in their handlers at once, one of them
\* past its first wait
C36_Witness ==
    \E t, u \in TaskIds :
        /\ t # u
        /\ Handling(t)
        /\ Handling(u)
        /\ Task(t).req.sender = Task(u).req.sender
        /\ Task(t).req.signed
        /\ Task(u).req.signed
        /\ Task(t).pc \in {"RV_Verified", "RR_Votes", "RR_Existing", "RX_Existing", "HM_Saved"}


\* the rule of submitReveal for a reveal, on the ballot and the votes as the
\* store holds them: the vote is there, the vote data is valid for the ballot
\* and the commitment recomputed for the ballot's vote type is the vote's
SubmitRevealAccepts(reveal) ==
    /\ ballots[reveal.ballotId] # Null
    /\ isValidHash(reveal.nullifier)
    /\ \E v \in getVotesByBallot(votes, reveal.ballotId) :
          /\ v.nullifier = reveal.nullifier
          /\ validateVoteData(voteDataOf(reveal), ballots[reveal.ballotId])
          /\ constantTimeEqual(computedCommitment(reveal, ballots[reveal.ballotId]),
                               v.commitment)

\* C33: a reveal received from a peer during the reveal window passes the
\* handler's check of vote and commitment exactly when submitReveal accepts the
\* same reveal on the same ballot and vote, for each of the four vote types:
\* what submitReveal accepts goes on to be stored and not penalized, what it
\* rejects does not.
C33_ReceiptFollowsSubmitRule ==
    [][\A t \in TaskIds :
          (/\ Task(t).op = "handleMessage"
           /\ Task(t).pc = "RR_Votes"
           /\ tasks'[t].pc # "RR_Votes")
          => (tasks'[t].pc = "RR_Existing" <=> SubmitRevealAccepts(Task(t).req.payload))]_vars

\* a reveal of approval data that submitReveal accepts was answered with the
\* penalty for an invalid reveal and is not stored
C33_Witness ==
    \E t \in TaskIds :
        /\ Done(t, "handleMessage")
        /\ Task(t).req.type = "reveal"
        /\ Task(t).out = "invalid_reveal"
        /\ SubmitRevealAccepts(Task(t).req.payload)
        /\ reveals = {}


\* the time from the instant an entry is stamped with, in Unix seconds, to now
Age(e) == now - e.timestamp * MsPerSecond

Unexpired == {e \in nullifiers : Age(e) <= MaxNullifierAge}

\* C35: a run of the pruner leaves at most max_nullifiers entries, none of them
\* older than max_age; it removes an unexpired entry only when the unexpired
\* entries are over the cap, and then no entry it keeps is older than one it
\* removed.
C35_PruneExpiredThenOldest ==
    [][(tasks' = tasks /\ nullifiers' # nullifiers)
       => /\ Cardinality(nullifiers') <= MaxNullifiers
          /\ \A e \in nullifiers' : Age(e) <= MaxNullifierAge
          /\ Cardinality(Unexpired) <= MaxNullifiers => Unexpired \subseteq nullifiers'
          /\ \A g \in Unexpired \ nullifiers', k \in nullifiers' :
                 g.timestamp <= k.timestamp]_vars

\* the pruner has emptied the cache of the one entry it held, forty seconds
\* after the vote was attested
C35_Witness ==
    /\ nullifiers = {}
    /\ now = StartTime + DurMs
    /\ \E v \in votes : now - v.attestation.timestamp * MsPerSecond <= MaxNullifierAge
    /\ Cardinality(votes) = 1


Banned(peer) == peerScores[peer] # Null /\ peerScores[peer].score < PeerScoreThreshold

\* C34: a peer whose score is below the threshold stays below it, and a signed
\* envelope of it that is taken up from then on is dropped at once: store,
\* cache, scores and outgoing messages are as before.
C34_BannedStaysBanned ==
    [][\A peer \in Peers :
          Banned(peer)
          => /\ peerScores'[peer].score < PeerScoreThreshold
             /\ \A t \in TaskIds :
                   (/\ Task(t).op = "idle"
                    /\ tasks'[t].op = "handleMessage"
                    /\ tasks'[t].req.signed
                    /\ tasks'[t].req.sender = peer)
                   => /\ tasks'[t].pc = "done"
                      /\ UNCHANGED <<ballots, votes, reveals, results, nullifiers,
                                     peerScores, sent>>]_vars

\* the peer is back at the threshold after it was below it: the handler of an
\* envelope taken up before the ban has rewarded it
C34_Witness ==
    \E t \in TaskIds :
        /\ Done(t, "handleMessage")
        /\ Task(t).req.signed
        /\ Task(t).out \in {"ok", "NOT_CONNECTED"}
        /\ peerScores[Task(t).req.sender].score = PeerScoreThreshold
        /\ peerScores[Task(t).req.sender].duplicates > 0


DuplicateIndex(partials) ==
    \E j, k \in DOMAIN partials : j # k /\ partials[j].index = partials[k].index

\* C40: aggregate fails with DuplicateShareIndex whenever two of the partial
\* evaluations carry the same share index; it returns no point for them.
C40_DuplicateIndexFails ==
    \A t \in TaskIds :
        (Done(t, "aggregate") /\ DuplicateIndex(Task(t).req.partials))
        => Task(t).out = "DuplicateShareIndex"

\* two partial evaluations of share 1 were aggregated to the sum of their points
C40_Witness ==
    \E t \in TaskIds :
        /\ Done(t, "aggregate")
        /\ Len(Task(t).req.partials) = 2
        /\ Task(t).req.partials[1].index = Task(t).req.partials[2].index
        /\ Task(t).out = "ok"
        /\ Task(t).val.point =
              (Task(t).req.partials[1].value + Task(t).req.partials[2].value) % CurveOrder


\* C39: once disconnect() was called, as stop() does, the relay adapter makes
\* no further attempt to connect: no reconnect timer is pending and no socket
\* is open, whenever the close event of the closed socket arrives.
C39_NoReconnectAfterDisconnect ==
    relay.stopped => relay.reconnectTimer # "pending" /\ relay.ws = "none"

\* gossip is stopped and the adapter is connected again over a new socket
C39_Witness ==
    /\ relay.stopped
    /\ ~started
    /\ relay.ws = "open"
    /\ connected
    /\ relay.closing = 0


Queued(t) == Task(t).op = "requestEligibilityToken" /\ Task(t).pc = "BA_Queued"

\* the places a task has in the queue and in the batch that is processed
PlacesOf(t) ==
    Cardinality({i \in DOMAIN batcher.queue : batcher.queue[i] = t})
    + Cardinality({i \in DOMAIN batcher.batch : batcher.batch[i] = t})

\* the requester is one that the instance gate and the ballot admit
AdmittedRequest(req) ==
    /\ ballots[req.ballotId] # Null
    /\ req.publicKey \in GateAdmitted
    /\ req.publicKey \in BallotAdmitted(ballots[req.ballotId])

\* a request that waits has one place in the queue or the batch, and a settled
\* one has none and has the outcome of its own request: a token that was
\* issued, of its own, if its requester is admitted, and INELIGIBLE if not
SettledWithOwnOutcome ==
    \A t \in TaskIds :
        /\ Queued(t) => PlacesOf(t) = 1
        /\ ~Queued(t) => PlacesOf(t) = 0
        /\ Done(t, "requestEligibilityToken")
           => /\ Task(t).out = "ok" <=> AdmittedRequest(Task(t).req)
              /\ Task(t).out # "ok" => Task(t).out = "INELIGIBLE"
              /\ Task(t).out = "ok" => Task(t).val \in issued
              /\ \A u \in TaskIds :
                    (u # t /\ Done(u, "requestEligibilityToken") /\ Task(u).out = "ok"
                     /\ Task(t).out = "ok")
                    => Task(u).val # Task(t).val

\* C38: with batching, every token request handed to the batcher is settled in
\* the end, once, with the outcome computed for that request: the shuffle
\* gives no requester the result of another, and no request stays in the queue
\* as long as timers fire and the processor returns.
C38_BatchedRequestsSettle ==
    /\ []SettledWithOwnOutcome
    /\ \A t \in TaskIds : Queued(t) ~> Done(t, "requestEligibilityToken")

\* two requests are settled: the one of pk1 has its token, the one of pk2 was
\* refused
C38_Witness ==
    \E t, u \in TaskIds :
        /\ Done(t, "requestEligibilityToken")
        /\ Done(u, "requestEligibilityToken")
        /\ Task(t).req.publicKey = "pk1"
        /\ Task(u).req.publicKey = "pk2"
        /\ Task(t).out = "ok"
        /\ Task(u).out = "INELIGIBLE"
        /\ Task(t).val \in issued

============================================================================
